---- MODULE Spec2Model ----
(***************************************************************************)
(* Verification model of the ResearchGradeSystem validation core:          *)
(* record construction (Claim, DerivationStep, ScientificReport), the GC-3 *)
(* structural validator and the GC-4 evidence-attachment validator.        *)
(*                                                                         *)
(* Python values are modelled as follows.  A dataclass instance is a       *)
(* record whose DOMAIN is the set of its attributes; a list is a sequence; *)
(* a str that the code strips or inspects is a sequence of one-character   *)
(* strings; an identifier that the code only compares is a string; None is *)
(* the string "None"; a raised exception is a record [type, category].     *)
(***************************************************************************)
EXTENDS Integers, Sequences, FiniteSets, TLC

VARIABLES
    claims,        \* the caller's list of constructed Claim records
    steps,         \* the caller's list of constructed DerivationStep records
    evidence,      \* the caller's list of constructed evidence records
    report,        \* the constructed ScientificReport, or NoReport
    raised,        \* the exception raised by the last operation, or NoError
    structResult,  \* the value returned by validate_report_structure, or NotRun
    structPrev,    \* the value its previous run returned, or NotRun
    evidResult,    \* the outcome of validate_evidence_attachment, or NotRun
    evidPrev,      \* the outcome of its previous run, or NotRun
    finalResult,   \* the tuple returned by finalization_check, or NotRun
    rateResult,    \* the value of compute_unsupported_claim_rate, or NotRun
    attempt,       \* the last constructor or parser call and its arguments
    returned       \* what that call returned or raised, or NotRun

vars == <<claims, steps, evidence, report, raised, structResult, structPrev,
          evidResult, evidPrev, finalResult, rateResult, attempt, returned>>

\* The results of the integrity aggregator, and the record of a single call.
integrity == <<finalResult, rateResult>>
call == <<attempt, returned>>

(***************************************************************************)
(* Bounds of the model.                                                    *)
(***************************************************************************)
MaxClaims == 2
MaxSteps == 2
MaxEvidence == 2

\* Identifiers a step may list in claim_ids / depends_on.  The n-th created
\* claim (step) gets the n-th identifier, so the identifiers beyond the
\* created records are the dangling ones.
ClaimRefPool == {"c1", "c2", "c3"}
StepRefPool == {"s1", "s2", "s3"}

None == "None"
NoReport == [kind |-> "NoReport"]
NotRun == [kind |-> "NotRun"]
NoAttempt == [cls |-> "None"]
NoError == [type |-> "None", category |-> "None", args |-> <<>>]

Range(s) == {s[i] : i \in DOMAIN s}

\* All sequences over S of length at most n.
SeqsUpTo(S, n) == UNION {[1..k -> S] : k \in 0..n}

\* Python: len(xs) != len(set(xs))
HasDuplicates(xs) == Len(xs) # Cardinality(Range(xs))

(***************************************************************************)
(* Python str helpers.  A character is a one-element name; PyWhitespace is *)
(* the set of the model's characters that str.strip() removes              *)
(* (str.isspace()); every other character name is not whitespace.          *)
(***************************************************************************)
PyWhitespace == {" ", "TAB", "LF", "CR", "VT", "FF", "NBSP", "EMSP"}

RECURSIVE LStrip(_)
LStrip(s) ==
    IF s # <<>> /\ Head(s) \in PyWhitespace THEN LStrip(Tail(s)) ELSE s

RECURSIVE RStrip(_)
RStrip(s) ==
    IF s # <<>> /\ s[Len(s)] \in PyWhitespace
    THEN RStrip(SubSeq(s, 1, Len(s) - 1))
    ELSE s

\* str.strip()
Strip(s) == RStrip(LStrip(s))

\* Optional[str]: None, or a present string.
NoneStr == [present |-> FALSE, chars |-> <<>>]
SomeStr(s) == [present |-> TRUE, chars |-> s]

Ok(v) == [ok |-> TRUE, value |-> v]
\* A raised exception: its type, the category its message states and the
\* values the message interpolates that a property reads.
RaiseWith(t, c, args) == [ok |-> FALSE, error |-> [type |-> t, category |-> c, args |-> args]]
Raise(t, c) == RaiseWith(t, c, <<>>)

(***************************************************************************)
(* Claim (claim.py).                                                       *)
(***************************************************************************)
ClaimLabel == {"DERIVED", "COMPUTED", "CITED", "SPECULATIVE"}

\* The attributes the dataclass declares: exactly these are accepted by the
\* generated __init__ and exist on every instance.
ClaimFields ==
    {"claim_id", "statement", "claim_label", "step_id", "evidence_ids", "claim_span"}

ClaimRequired == {"claim_id", "statement", "claim_label"}

ClaimDefaults ==
    [step_id |-> None, evidence_ids |-> <<>>, claim_span |-> None]

\* Variant: the statement is not trimmed before the emptiness test.
ClaimPostInit_untrimmed_statement(self) ==
    IF self.statement = <<>>
    THEN Raise("ValueError", "STATEMENT_EMPTY")
    ELSE IF self.claim_label = None
    THEN Raise("ValueError", "LABEL_REQUIRED")
    ELSE IF self.claim_label \notin ClaimLabel
    THEN Raise("TypeError", "LABEL_NOT_ENUM")
    ELSE Ok(self)

\* Claim.__post_init__
ClaimPostInit(self) ==
    IF self.statement = <<>> \/ Strip(self.statement) = <<>>
    THEN Raise("ValueError", "STATEMENT_EMPTY")
    ELSE IF self.claim_label = None
    THEN Raise("ValueError", "LABEL_REQUIRED")
    ELSE IF self.claim_label \notin ClaimLabel
    THEN Raise("TypeError", "LABEL_NOT_ENUM")
    ELSE Ok(self)

\* Claim(**kw): the generated __init__ binds the keyword arguments to the
\* declared fields (an undeclared keyword or a missing required one is a
\* TypeError), then runs __post_init__.
Claim(kw) ==
    IF DOMAIN kw \ ClaimFields # {}
    THEN Raise("TypeError", "UNEXPECTED_KEYWORD")
    ELSE IF ClaimRequired \ DOMAIN kw # {}
    THEN Raise("TypeError", "MISSING_ARGUMENT")
    ELSE ClaimPostInit([f \in ClaimFields |->
                          IF f \in DOMAIN kw THEN kw[f] ELSE ClaimDefaults[f]])

\* Claim.create: the id is str(uuid4()), modelled as the next unused id.
ClaimCreate(fresh, statement, claim_label) ==
    Claim([claim_id |-> fresh, statement |-> statement,
           claim_label |-> claim_label, step_id |-> None,
           evidence_ids |-> <<>>, claim_span |-> None])

\* Claim.is_supported counting a claim as supported by exactly one id.
is_supported_by_one_id(self) ==
    IF self.claim_label = "SPECULATIVE" THEN TRUE ELSE Len(self.evidence_ids) = 1

\* Claim.is_supported
is_supported(self) ==
    IF self.claim_label = "SPECULATIVE" THEN TRUE ELSE Len(self.evidence_ids) > 0

(***************************************************************************)
(* DerivationStep (step.py).                                               *)
(***************************************************************************)
StepStatus == {"UNCHECKED", "CHECKED", "FAILED", "INDETERMINATE"}

StepFields == {"step_id", "claim_ids", "step_status", "depends_on", "status_reason"}

StepRequired == {"step_id", "claim_ids"}

StepDefaults ==
    [step_status |-> "UNCHECKED", depends_on |-> <<>>, status_reason |-> NoneStr]

\* Variant: a whitespace-only reason counts as a reason.
DerivationStepPostInit_untrimmed_reason(self) ==
    IF self.claim_ids = <<>>
    THEN Raise("ValueError", "EMPTY_CLAIM_IDS")
    ELSE IF HasDuplicates(self.claim_ids)
    THEN Raise("ValueError", "DUPLICATE_CLAIM_IN_STEP")
    ELSE IF self.step_status \notin StepStatus
    THEN Raise("TypeError", "STATUS_NOT_ENUM")
    ELSE IF /\ self.step_status = "INDETERMINATE"
            /\ \/ self.status_reason = NoneStr
               \/ self.status_reason.chars = <<>>
    THEN Raise("ValueError", "INDETERMINATE_REQUIRES_REASON")
    ELSE Ok(self)

\* DerivationStep.__post_init__
DerivationStepPostInit(self) ==
    IF self.claim_ids = <<>>
    THEN Raise("ValueError", "EMPTY_CLAIM_IDS")
    ELSE IF HasDuplicates(self.claim_ids)
    THEN Raise("ValueError", "DUPLICATE_CLAIM_IN_STEP")
    ELSE IF self.step_status \notin StepStatus
    THEN Raise("TypeError", "STATUS_NOT_ENUM")
    ELSE IF /\ self.step_status = "INDETERMINATE"
            /\ \/ self.status_reason = NoneStr
               \/ self.status_reason.chars = <<>>
               \/ Strip(self.status_reason.chars) = <<>>
    THEN Raise("ValueError", "INDETERMINATE_REQUIRES_REASON")
    ELSE Ok(self)

DerivationStep(kw) ==
    IF DOMAIN kw \ StepFields # {}
    THEN Raise("TypeError", "UNEXPECTED_KEYWORD")
    ELSE IF StepRequired \ DOMAIN kw # {}
    THEN Raise("TypeError", "MISSING_ARGUMENT")
    ELSE DerivationStepPostInit([f \in StepFields |->
                          IF f \in DOMAIN kw THEN kw[f] ELSE StepDefaults[f]])

(***************************************************************************)
(* ScientificReport (report.py).                                           *)
(***************************************************************************)
claim_ids_of(cs) == [i \in DOMAIN cs |-> cs[i].claim_id]
step_ids_of(ss) == [i \in DOMAIN ss |-> ss[i].step_id]
evidence_ids_of(es) == [i \in DOMAIN es |-> es[i].evidence_id]

\* Variant: the evidence collision check placed before the step check.
ScientificReport_evidence_before_steps(cs, ss, es) ==
    IF HasDuplicates(claim_ids_of(cs))
    THEN Raise("ValueError", "CLAIM_ID_COLLISION")
    ELSE IF HasDuplicates(evidence_ids_of(es))
    THEN Raise("ValueError", "EVIDENCE_ID_COLLISION")
    ELSE IF HasDuplicates(step_ids_of(ss))
    THEN Raise("ValueError", "STEP_ID_COLLISION")
    ELSE Ok([kind |-> "ScientificReport", claims |-> cs, steps |-> ss,
             evidence |-> es, report_id |-> None])

\* ScientificReport.__post_init__: the three collision checks, in order.
ScientificReport(cs, ss, es) ==
    IF HasDuplicates(claim_ids_of(cs))
    THEN Raise("ValueError", "CLAIM_ID_COLLISION")
    ELSE IF HasDuplicates(step_ids_of(ss))
    THEN Raise("ValueError", "STEP_ID_COLLISION")
    ELSE IF HasDuplicates(evidence_ids_of(es))
    THEN Raise("ValueError", "EVIDENCE_ID_COLLISION")
    ELSE Ok([kind |-> "ScientificReport", claims |-> cs, steps |-> ss,
             evidence |-> es, report_id |-> None])

(***************************************************************************)
(* GC-3 structural validator (structure_validators.py).                    *)
(***************************************************************************)
\* ValidationError(category, message, step_id, claim_id).  The message is
\* the f-string's fixed text with the values it interpolates.
ValidationError(category, text, args, step_id, claim_id) ==
    [category |-> category, message |-> [text |-> text, args |-> args],
     step_id |-> step_id, claim_id |-> claim_id]

\* The errors appended, in order, by a loop over xs whose body appends
\* Err(x) when Bad(x).
LoopErrors(xs, Bad(_), Err(_)) ==
    LET bad == SelectSeq(xs, Bad)
    IN [i \in DOMAIN bad |-> Err(bad[i])]

RECURSIVE Flatten(_)
Flatten(ss) == IF ss = <<>> THEN <<>> ELSE Head(ss) \o Flatten(Tail(ss))

\* The list extended, in order, by PerItem(x) for each x of xs.
LoopExtend(xs, PerItem(_)) == Flatten([i \in DOMAIN xs |-> PerItem(xs[i])])

\* Variant: the inner loop breaks at the first dangling entry of a step.
_validate_claim_references_break(r) ==
    LET existing_claim_ids == {r.claims[i].claim_id : i \in DOMAIN r.claims}
        OfStep(step) ==
            LET Bad(claim_id) == claim_id \notin existing_claim_ids
                Err(claim_id) ==
                    ValidationError("DANGLING_CLAIM_ID",
                                    "Step references non-existent claim_id",
                                    <<claim_id>>, step.step_id, claim_id)
                all == LoopErrors(step.claim_ids, Bad, Err)
            IN IF all = <<>> THEN <<>> ELSE <<all[1]>>
    IN LoopExtend(r.steps, OfStep)

\* StructureValidator._validate_claim_references (V1)
_validate_claim_references(r) ==
    LET existing_claim_ids == {r.claims[i].claim_id : i \in DOMAIN r.claims}
        OfStep(step) ==
            LET Bad(claim_id) == claim_id \notin existing_claim_ids
                Err(claim_id) ==
                    ValidationError("DANGLING_CLAIM_ID",
                                    "Step references non-existent claim_id",
                                    <<claim_id>>, step.step_id, claim_id)
            IN LoopErrors(step.claim_ids, Bad, Err)
    IN LoopExtend(r.steps, OfStep)

\* Variant: referenced_claim_ids is assigned, not updated, in the loop, so
\* it ends up holding the last step's claim ids only.
_validate_no_orphans_last_step(r) ==
    LET referenced_claim_ids ==
            IF r.steps = <<>> THEN {} ELSE Range(r.steps[Len(r.steps)].claim_ids)
        Bad(claim) == claim.claim_id \notin referenced_claim_ids
        Err(claim) ==
            ValidationError("ORPHAN_CLAIM", "Claim is not referenced by any step",
                            <<claim.claim_id>>, None, claim.claim_id)
    IN LoopErrors(r.claims, Bad, Err)

\* StructureValidator._validate_no_orphans (V2)
_validate_no_orphans(r) ==
    LET referenced_claim_ids ==
            UNION {Range(r.steps[i].claim_ids) : i \in DOMAIN r.steps}
        Bad(claim) == claim.claim_id \notin referenced_claim_ids
        Err(claim) ==
            ValidationError("ORPHAN_CLAIM", "Claim is not referenced by any step",
                            <<claim.claim_id>>, None, claim.claim_id)
    IN LoopErrors(r.claims, Bad, Err)

\* The (step_id, claim_id) pairs in the order the nested loops of
\* _validate_unique_ownership visit them.
OwnershipVisits(r) ==
    LET OfStep(step) ==
            [i \in DOMAIN step.claim_ids |->
                [step_id |-> step.step_id, claim_id |-> step.claim_ids[i]]]
    IN LoopExtend(r.steps, OfStep)

\* The keys of the claim_ownership dict in insertion order: a key is
\* inserted when its claim_id is visited for the first time.
RECURSIVE OwnershipKeys(_, _)
OwnershipKeys(visits, i) ==
    IF i > Len(visits) THEN <<>>
    ELSE (IF \E j \in 1..(i - 1) : visits[j].claim_id = visits[i].claim_id
          THEN <<>> ELSE <<visits[i].claim_id>>)
         \o OwnershipKeys(visits, i + 1)

\* claim_ownership[claim_id]: the step ids appended for that key, in order.
OwnerStepIds(visits, claim_id) ==
    LET Mine(v) == v.claim_id = claim_id
        mine == SelectSeq(visits, Mine)
    IN [i \in DOMAIN mine |-> mine[i].step_id]

\* Variant: the threshold is off by one (more than two owners).
_validate_unique_ownership_off_by_one(r) ==
    LET visits == OwnershipVisits(r)
        Bad(claim_id) == Len(OwnerStepIds(visits, claim_id)) > 2
        Err(claim_id) ==
            ValidationError("DUPLICATE_CLAIM_OWNER", "Claim is owned by multiple steps",
                            OwnerStepIds(visits, claim_id), None, claim_id)
    IN LoopErrors(OwnershipKeys(visits, 1), Bad, Err)

\* Variant: the duplicate-owner check walks report.claims instead of the
\* ownership dict.
_validate_unique_ownership_by_claims(r) ==
    LET visits == OwnershipVisits(r)
        Bad(claim_id) == Len(OwnerStepIds(visits, claim_id)) > 1
        Err(claim_id) ==
            ValidationError("DUPLICATE_CLAIM_OWNER", "Claim is owned by multiple steps",
                            OwnerStepIds(visits, claim_id), None, claim_id)
    IN LoopErrors(claim_ids_of(r.claims), Bad, Err)

\* StructureValidator._validate_unique_ownership (V3)
_validate_unique_ownership(r) ==
    LET visits == OwnershipVisits(r)
        Bad(claim_id) == Len(OwnerStepIds(visits, claim_id)) > 1
        Err(claim_id) ==
            ValidationError("DUPLICATE_CLAIM_OWNER", "Claim is owned by multiple steps",
                            OwnerStepIds(visits, claim_id), None, claim_id)
    IN LoopErrors(OwnershipKeys(visits, 1), Bad, Err)

\* Variant: a step that depends on itself is reported as well.
_validate_step_dependencies_rejecting_self(r) ==
    LET existing_step_ids == {r.steps[i].step_id : i \in DOMAIN r.steps}
        OfStep(step) ==
            LET Bad(dep_step_id) ==
                    dep_step_id \notin existing_step_ids \/ dep_step_id = step.step_id
                Err(dep_step_id) ==
                    ValidationError("DANGLING_STEP_DEP",
                                    "Step depends on non-existent step_id",
                                    <<dep_step_id>>, step.step_id, None)
            IN LoopErrors(step.depends_on, Bad, Err)
    IN LoopExtend(r.steps, OfStep)

\* Variant: the inner loop runs over set(step.depends_on), so a repeated
\* entry is visited once.
_validate_step_dependencies_dedup(r) ==
    LET existing_step_ids == {r.steps[i].step_id : i \in DOMAIN r.steps}
        OfStep(step) ==
            LET deps == step.depends_on
                firsts == SelectSeq([k \in DOMAIN deps |-> k],
                                    LAMBDA k : \A j \in 1..(k - 1) : deps[j] # deps[k])
                Bad(k) == deps[k] \notin existing_step_ids
                Err(k) ==
                    ValidationError("DANGLING_STEP_DEP",
                                    "Step depends on non-existent step_id",
                                    <<deps[k]>>, step.step_id, None)
            IN LoopErrors(firsts, Bad, Err)
    IN LoopExtend(r.steps, OfStep)

\* StructureValidator._validate_step_dependencies
_validate_step_dependencies(r) ==
    LET existing_step_ids == {r.steps[i].step_id : i \in DOMAIN r.steps}
        OfStep(step) ==
            LET Bad(dep_step_id) == dep_step_id \notin existing_step_ids
                Err(dep_step_id) ==
                    ValidationError("DANGLING_STEP_DEP",
                                    "Step depends on non-existent step_id",
                                    <<dep_step_id>>, step.step_id, None)
            IN LoopErrors(step.depends_on, Bad, Err)
    IN LoopExtend(r.steps, OfStep)

\* Variant: the dependency check is left out.
validate_report_without_dependencies(r) ==
    LET errors == _validate_claim_references(r)
                  \o _validate_no_orphans(r)
                  \o _validate_unique_ownership(r)
    IN [kind |-> "returned", is_valid |-> Len(errors) = 0, errors |-> errors]

\* Variant: the result is returned as soon as one check found errors.
validate_report_short_circuit(r) ==
    LET v1 == _validate_claim_references(r)
        v2 == _validate_no_orphans(r)
        v3 == _validate_unique_ownership(r)
        v4 == _validate_step_dependencies(r)
        errors == IF v1 # <<>> THEN v1
                  ELSE IF v2 # <<>> THEN v2
                  ELSE IF v3 # <<>> THEN v3
                  ELSE v4
    IN [kind |-> "returned", is_valid |-> Len(errors) = 0, errors |-> errors]

\* StructureValidator.validate_report
validate_report(r) ==
    LET errors == _validate_claim_references(r)
                  \o _validate_no_orphans(r)
                  \o _validate_unique_ownership(r)
                  \o _validate_step_dependencies(r)
    IN [kind |-> "returned", is_valid |-> Len(errors) = 0, errors |-> errors]

\* validate_report_structure
validate_report_structure(r) == validate_report(r)

(***************************************************************************)
(* EvidenceSource, PayloadRef, EvidenceObject (evidence.py).  An enum      *)
(* member is named by its value; a value of another type is named by a     *)
(* string outside the enum.  Evidence ids and tagged-union values are      *)
(* strings the code strips, so they are sequences of characters.           *)
(***************************************************************************)
EvidenceType == {"derivation", "computation", "citation"}
EvidenceStatus == {"pass", "fail", "indeterminate"}
IndeterminateReason ==
    {"unsupported", "domain", "singularity", "timeout", "missing_bc_ic", "tool_error"}
SourceKinds == {"step_id", "tool_run_id", "citation_id"}
PayloadKinds == {"log_id", "snippet_ref", "expression_ref"}

\* The tagged-union value check shared by EvidenceSource and PayloadRef
\* (__post_init__ of each).
TaggedPostInit(cls, kinds, kind, value) ==
    IF kind \notin kinds
    THEN Raise("ValueError", "INVALID_KIND")
    ELSE IF value = <<>> \/ Strip(value) = <<>>
    THEN Raise("ValueError", "VALUE_EMPTY")
    ELSE IF value # Strip(value)
    THEN Raise("ValueError", "VALUE_EDGE_WHITESPACE")
    ELSE Ok([cls |-> cls, kind |-> kind, value |-> value])

EvidenceSource(kind, value) == TaggedPostInit("EvidenceSource", SourceKinds, kind, value)
PayloadRef(kind, value) == TaggedPostInit("PayloadRef", PayloadKinds, kind, value)

\* Variant: the targets of computation and citation are exchanged.
alignment_exchanged ==
    [derivation |-> "step_id", computation |-> "citation_id", citation |-> "tool_run_id"]

\* The alignment table of EvidenceObject.__post_init__.
alignment ==
    [derivation |-> "step_id", computation |-> "tool_run_id", citation |-> "citation_id"]

\* Variant: a reason on a status other than indeterminate is accepted.
EvidenceObject_keeping_stale_reason(self) ==
    IF self.evidence_id = <<>> \/ Strip(self.evidence_id) = <<>>
    THEN Raise("ValueError", "EVIDENCE_ID_EMPTY")
    ELSE IF self.evidence_id # Strip(self.evidence_id)
    THEN Raise("ValueError", "EVIDENCE_ID_EDGE_WHITESPACE")
    ELSE IF self.evidence_type \notin EvidenceType
    THEN Raise("TypeError", "EVIDENCE_TYPE_NOT_ENUM")
    ELSE IF self.source.cls # "EvidenceSource"
    THEN Raise("TypeError", "SOURCE_NOT_EVIDENCE_SOURCE")
    ELSE IF self.status \notin EvidenceStatus
    THEN Raise("TypeError", "STATUS_NOT_ENUM")
    ELSE IF self.payload_ref.cls # "PayloadRef"
    THEN Raise("TypeError", "PAYLOAD_REF_NOT_PAYLOAD_REF")
    ELSE IF self.source.kind # alignment[self.evidence_type]
    THEN RaiseWith("ValueError", "EVIDENCE_SOURCE_KIND_MISMATCH",
                   <<self.evidence_type, alignment[self.evidence_type], self.source.kind>>)
    ELSE IF self.status = "indeterminate" /\ self.status_reason = None
    THEN Raise("ValueError", "INDETERMINATE_MISSING_REASON")
    ELSE IF self.status = "indeterminate" /\ self.status_reason \notin IndeterminateReason
    THEN Raise("TypeError", "STATUS_REASON_NOT_ENUM")
    ELSE IF self.notes # NoneStr /\ Strip(self.notes.chars) = <<>>
    THEN Raise("ValueError", "NOTES_EMPTY")
    ELSE Ok(self)

\* EvidenceObject.__post_init__
EvidenceObject(self) ==
    IF self.evidence_id = <<>> \/ Strip(self.evidence_id) = <<>>
    THEN Raise("ValueError", "EVIDENCE_ID_EMPTY")
    ELSE IF self.evidence_id # Strip(self.evidence_id)
    THEN Raise("ValueError", "EVIDENCE_ID_EDGE_WHITESPACE")
    ELSE IF self.evidence_type \notin EvidenceType
    THEN Raise("TypeError", "EVIDENCE_TYPE_NOT_ENUM")
    ELSE IF self.source.cls # "EvidenceSource"
    THEN Raise("TypeError", "SOURCE_NOT_EVIDENCE_SOURCE")
    ELSE IF self.status \notin EvidenceStatus
    THEN Raise("TypeError", "STATUS_NOT_ENUM")
    ELSE IF self.payload_ref.cls # "PayloadRef"
    THEN Raise("TypeError", "PAYLOAD_REF_NOT_PAYLOAD_REF")
    ELSE IF self.source.kind # alignment[self.evidence_type]
    THEN RaiseWith("ValueError", "EVIDENCE_SOURCE_KIND_MISMATCH",
                   <<self.evidence_type, alignment[self.evidence_type], self.source.kind>>)
    ELSE IF self.status = "indeterminate" /\ self.status_reason = None
    THEN Raise("ValueError", "INDETERMINATE_MISSING_REASON")
    ELSE IF self.status = "indeterminate" /\ self.status_reason \notin IndeterminateReason
    THEN Raise("TypeError", "STATUS_REASON_NOT_ENUM")
    ELSE IF self.status # "indeterminate" /\ self.status_reason # None
    THEN Raise("ValueError", "STATUS_REASON_NOT_ALLOWED")
    ELSE IF self.notes # NoneStr /\ Strip(self.notes.chars) = <<>>
    THEN Raise("ValueError", "NOTES_EMPTY")
    ELSE Ok(self)

(***************************************************************************)
(* Wire values and the GC-5 wire parsers (gc5_wire_parsers.py).  A wire    *)
(* value is the decoded JSON value: its Python type and, for a str, its    *)
(* characters, for a dict, its items.  A character is named by itself      *)
(* (ASCII letters, digits, "_" and the space) or by a longer name: TAB,    *)
(* LF, CR, VT, FF, the six invisible code points, EMSP (U+2003, a          *)
(* non-ASCII space), CYR_E (U+0415) and DOTLESS_I (U+0131).                *)
(***************************************************************************)
InvisibleChars == {"ZWSP", "NBSP", "BOM", "WJ", "ZWNJ", "ZWJ"}
NonAsciiChars == InvisibleChars \cup {"EMSP", "CYR_E", "DOTLESS_I"}
InternalWhitespace == {" ", "TAB", "LF", "CR"}

\* The characters of the enum values and union kinds the parsers compare
\* a wire string with.
Spelling ==
    [ DERIVED |->
          <<"D", "E", "R", "I", "V", "E", "D">>,
      COMPUTED |->
          <<"C", "O", "M", "P", "U", "T", "E", "D">>,
      CITED |->
          <<"C", "I", "T", "E", "D">>,
      SPECULATIVE |->
          <<"S", "P", "E", "C", "U", "L", "A", "T", "I", "V", "E">>,
      derivation |->
          <<"d", "e", "r", "i", "v", "a", "t", "i", "o", "n">>,
      computation |->
          <<"c", "o", "m", "p", "u", "t", "a", "t", "i", "o", "n">>,
      citation |->
          <<"c", "i", "t", "a", "t", "i", "o", "n">>,
      pass |->
          <<"p", "a", "s", "s">>,
      fail |->
          <<"f", "a", "i", "l">>,
      indeterminate |->
          <<"i", "n", "d", "e", "t", "e", "r", "m", "i", "n", "a", "t", "e">>,
      unsupported |->
          <<"u", "n", "s", "u", "p", "p", "o", "r", "t", "e", "d">>,
      domain |->
          <<"d", "o", "m", "a", "i", "n">>,
      singularity |->
          <<"s", "i", "n", "g", "u", "l", "a", "r", "i", "t", "y">>,
      timeout |->
          <<"t", "i", "m", "e", "o", "u", "t">>,
      missing_bc_ic |->
          <<"m", "i", "s", "s", "i", "n", "g", "_", "b", "c", "_", "i", "c">>,
      tool_error |->
          <<"t", "o", "o", "l", "_", "e", "r", "r", "o", "r">>,
      step_id |->
          <<"s", "t", "e", "p", "_", "i", "d">>,
      tool_run_id |->
          <<"t", "o", "o", "l", "_", "r", "u", "n", "_", "i", "d">>,
      citation_id |->
          <<"c", "i", "t", "a", "t", "i", "o", "n", "_", "i", "d">>,
      log_id |->
          <<"l", "o", "g", "_", "i", "d">>,
      snippet_ref |->
          <<"s", "n", "i", "p", "p", "e", "t", "_", "r", "e", "f">>,
      expression_ref |->
          <<"e", "x", "p", "r", "e", "s", "s", "i", "o", "n", "_", "r", "e", "f">> ]

\* The enum member or kind whose value is exactly the given string.
Spelled(members) == {Spelling[m] : m \in members}
WordOf(chars) == CHOOSE m \in DOMAIN Spelling : Spelling[m] = chars

WStr(chars) == [t |-> "str", v |-> chars]
WNone == [t |-> "NoneType", v |-> <<>>]
WOther(t) == [t |-> t, v |-> <<>>]
WDict(items) == [t |-> "dict", v |-> items]

\* _check_unicode_invisibles, _check_non_ascii, _check_internal_whitespace:
\* TRUE when the check raises.
_check_unicode_invisibles(value) == \E i \in DOMAIN value : value[i] \in InvisibleChars
_check_non_ascii(value) == \E i \in DOMAIN value : value[i] \in NonAsciiChars
_check_internal_whitespace(value) ==
    \E i \in DOMAIN value : value[i] \in InternalWhitespace

\* parse_evidence_id (GC-5) with the whitespace-only check made before the
\* invisible-character check.
parse_evidence_id_whitespace_first(wire) ==
    IF wire.t = "NoneType"
    THEN Raise("ValueError", "NONE")
    ELSE IF wire.t # "str"
    THEN Raise("TypeError", "NOT_STRING")
    ELSE IF wire.v = <<>>
    THEN Raise("ValueError", "EMPTY")
    ELSE IF Strip(wire.v) = <<>>
    THEN Raise("ValueError", "WHITESPACE_ONLY")
    ELSE IF _check_unicode_invisibles(wire.v)
    THEN Raise("ValueError", "INVISIBLE")
    ELSE IF wire.v # Strip(wire.v)
    THEN Raise("ValueError", "EDGE_WHITESPACE")
    ELSE IF _check_non_ascii(wire.v)
    THEN Raise("ValueError", "NON_ASCII")
    ELSE IF _check_internal_whitespace(wire.v)
    THEN Raise("ValueError", "INTERNAL_WHITESPACE")
    ELSE Ok(wire.v)

\* parse_evidence_id (GC-5)
parse_evidence_id(wire) ==
    IF wire.t = "NoneType"
    THEN Raise("ValueError", "NONE")
    ELSE IF wire.t # "str"
    THEN Raise("TypeError", "NOT_STRING")
    ELSE IF wire.v = <<>>
    THEN Raise("ValueError", "EMPTY")
    ELSE IF _check_unicode_invisibles(wire.v)
    THEN Raise("ValueError", "INVISIBLE")
    ELSE IF Strip(wire.v) = <<>>
    THEN Raise("ValueError", "WHITESPACE_ONLY")
    ELSE IF wire.v # Strip(wire.v)
    THEN Raise("ValueError", "EDGE_WHITESPACE")
    ELSE IF _check_non_ascii(wire.v)
    THEN Raise("ValueError", "NON_ASCII")
    ELSE IF _check_internal_whitespace(wire.v)
    THEN Raise("ValueError", "INTERNAL_WHITESPACE")
    ELSE Ok(wire.v)

\* The body shared by parse_evidence_type, parse_evidence_status and
\* parse_indeterminate_reason: Enum(wire) succeeds on the exact value only.
ParseEnum(wire, members, category) ==
    IF wire.t = "NoneType"
    THEN RaiseWith("ValueError", "NONE", <<category>>)
    ELSE IF wire.t # "str"
    THEN Raise("ValueError", category)
    ELSE IF wire.v \in Spelled(members)
    THEN Ok(WordOf(wire.v))
    ELSE Raise("ValueError", category)

parse_evidence_type(wire) == ParseEnum(wire, EvidenceType, "EVIDENCE_TYPE_INVALID")
parse_evidence_status(wire) == ParseEnum(wire, EvidenceStatus, "EVIDENCE_STATUS_INVALID")
parse_indeterminate_reason(wire) ==
    ParseEnum(wire, IndeterminateReason, "INDETERMINATE_REASON_INVALID")

\* The body shared by parse_evidence_source and parse_payload_ref.
ParseTagged(wire, cls, kinds, field) ==
    IF wire.t = "NoneType"
    THEN RaiseWith("ValueError", "NONE", <<field>>)
    ELSE IF wire.t # "dict"
    THEN RaiseWith("TypeError", "NOT_DICT", <<field>>)
    ELSE IF "kind" \notin DOMAIN wire.v
    THEN RaiseWith("ValueError", "MISSING_KIND", <<field>>)
    ELSE IF "value" \notin DOMAIN wire.v
    THEN RaiseWith("ValueError", "MISSING_VALUE", <<field>>)
    ELSE LET kind == wire.v.kind
             value == wire.v.value
         IN IF kind.t # "str"
            THEN RaiseWith("ValueError", "KIND_INVALID", <<field>>)
            ELSE IF kind.v \notin Spelled(kinds)
            THEN RaiseWith("ValueError", "KIND_INVALID", <<field>>)
            ELSE IF value.t # "str"
            THEN RaiseWith("TypeError", "VALUE_INVALID", <<field>>)
            ELSE IF value.v = <<>> \/ Strip(value.v) = <<>>
            THEN RaiseWith("ValueError", "EMPTY_OR_WHITESPACE_ONLY", <<field>>)
            ELSE IF _check_unicode_invisibles(value.v)
            THEN RaiseWith("ValueError", "INVISIBLE", <<field>>)
            ELSE IF value.v # Strip(value.v)
            THEN RaiseWith("ValueError", "EDGE_WHITESPACE", <<field>>)
            ELSE IF _check_non_ascii(value.v)
            THEN RaiseWith("ValueError", "NON_ASCII", <<field>>)
            ELSE IF _check_internal_whitespace(value.v)
            THEN RaiseWith("ValueError", "INTERNAL_WHITESPACE", <<field>>)
            ELSE TaggedPostInit(cls, kinds, WordOf(kind.v), value.v)

parse_evidence_source(wire) == ParseTagged(wire, "EvidenceSource", SourceKinds, "source")
parse_payload_ref(wire) == ParseTagged(wire, "PayloadRef", PayloadKinds, "payload_ref")

required_fields == <<"evidence_id", "evidence_type", "source", "status", "payload_ref">>

\* The last element of a sequence of outcomes that is a raise.
FirstRaise_taking_last(outcomes) ==
    LET failing == {i \in DOMAIN outcomes : ~outcomes[i].ok}
    IN outcomes[CHOOSE i \in failing : \A j \in failing : i >= j]

\* The first element of a sequence of outcomes that is a raise, if any.
FirstRaise(outcomes) ==
    LET failing == {i \in DOMAIN outcomes : ~outcomes[i].ok}
    IN outcomes[CHOOSE i \in failing : \A j \in failing : i <= j]

\* parse_evidence_object
parse_evidence_object(wire) ==
    IF wire.t = "NoneType"
    THEN Raise("ValueError", "NONE")
    ELSE IF wire.t # "dict"
    THEN Raise("TypeError", "NOT_DICT")
    ELSE IF \E k \in DOMAIN required_fields : required_fields[k] \notin DOMAIN wire.v
    THEN LET k == CHOOSE k \in DOMAIN required_fields :
                     /\ required_fields[k] \notin DOMAIN wire.v
                     /\ \A j \in 1..(k - 1) : required_fields[j] \in DOMAIN wire.v
         IN RaiseWith("ValueError", "EVIDENCE_MISSING_FIELD", <<required_fields[k]>>)
    ELSE LET items == wire.v
             status_reason ==
                 IF "status_reason" \in DOMAIN items /\ items.status_reason.t # "NoneType"
                 THEN parse_indeterminate_reason(items.status_reason)
                 ELSE Ok(None)
             notes ==
                 IF "notes" \in DOMAIN items /\ items.notes.t # "NoneType"
                 THEN IF items.notes.t # "str"
                      THEN Raise("TypeError", "NOTES_NOT_STRING")
                      ELSE Ok(SomeStr(items.notes.v))
                 ELSE Ok(NoneStr)
             parsed == << parse_evidence_id(items.evidence_id),
                          parse_evidence_type(items.evidence_type),
                          parse_evidence_source(items.source),
                          parse_evidence_status(items.status),
                          parse_payload_ref(items.payload_ref),
                          status_reason,
                          notes >>
         IN IF \E i \in DOMAIN parsed : ~parsed[i].ok
            THEN FirstRaise(parsed)
            ELSE EvidenceObject([evidence_id |-> parsed[1].value,
                                 evidence_type |-> parsed[2].value,
                                 notes |-> parsed[7].value,
                                 payload_ref |-> parsed[5].value,
                                 source |-> parsed[3].value,
                                 status |-> parsed[4].value,
                                 status_reason |-> parsed[6].value])

(***************************************************************************)
(* GC-2 claim label validators (validators.py).                            *)
(***************************************************************************)
LowercaseLetters ==
    << "a", "b", "c", "d", "e", "f", "g", "h", "i", "j", "k", "l", "m",
       "n", "o", "p", "q", "r", "s", "t", "u", "v", "w", "x", "y", "z" >>
UppercaseLetters ==
    << "A", "B", "C", "D", "E", "F", "G", "H", "I", "J", "K", "L", "M",
       "N", "O", "P", "Q", "R", "S", "T", "U", "V", "W", "X", "Y", "Z" >>

\* str.upper() of one character: an ASCII lowercase letter maps to its
\* capital, U+0131 (dotless i) maps to the ASCII "I", and the model's other
\* characters have no different uppercase form.
UpperChar(c) ==
    IF \E i \in DOMAIN LowercaseLetters : LowercaseLetters[i] = c
    THEN UppercaseLetters[CHOOSE i \in DOMAIN LowercaseLetters : LowercaseLetters[i] = c]
    ELSE IF c = "DOTLESS_I" THEN "I" ELSE c

\* str.upper() leaving every letter in the case it has.
Upper_leaving_case(s) == s

\* str.upper()
Upper(s) == [i \in DOMAIN s |-> UpperChar(s[i])]

\* valid_labels, as character strings
valid_labels == Spelled(ClaimLabel)

\* ClaimLabel[name]: the member whose name is spelled by the string; each
\* member's value is spelled as its name is.
ClaimLabelNamed(chars) == CHOOSE m \in ClaimLabel : Spelling[m] = chars

\* The word the TypeError message uses for the rejected type.
GotType(t) ==
    CASE t = "bool" -> "bool"
      [] t \in {"int", "float"} -> "number"
      [] OTHER -> t

\* parse_claim_label with the whitespace around the wire string removed
\* before the comparison.
parse_claim_label_trimming(wire) ==
    IF wire.t = "NoneType"
    THEN Raise("ValueError", "NONE")
    ELSE IF wire.t # "str"
    THEN RaiseWith("TypeError", "NOT_STRING", <<GotType(wire.t)>>)
    ELSE IF wire.v = <<>>
    THEN Raise("ValueError", "EMPTY")
    ELSE IF Strip(wire.v) \in valid_labels
    THEN Ok(ClaimLabelNamed(Strip(wire.v)))
    ELSE Raise("ValueError", "INVALID_LABEL")

\* parse_claim_label
parse_claim_label(wire) ==
    IF wire.t = "NoneType"
    THEN Raise("ValueError", "NONE")
    ELSE IF wire.t # "str"
    THEN RaiseWith("TypeError", "NOT_STRING", <<GotType(wire.t)>>)
    ELSE IF wire.v = <<>>
    THEN Raise("ValueError", "EMPTY")
    ELSE IF wire.v \in valid_labels
    THEN IF _check_non_ascii(wire.v)
         THEN Raise("ValueError", "NON_ASCII")
         ELSE Ok(ClaimLabelNamed(wire.v))
    ELSE IF _check_unicode_invisibles(wire.v)
    THEN Raise("ValueError", "INVISIBLE")
    ELSE IF Strip(wire.v) \in valid_labels
    THEN Raise("ValueError", "INVALID_WHITESPACE")
    ELSE IF Upper(wire.v) \in valid_labels
    THEN RaiseWith("ValueError", "MUST_BE_UPPERCASE", <<Upper(wire.v)>>)
    ELSE IF _check_non_ascii(wire.v)
    THEN Raise("ValueError", "NON_ASCII")
    ELSE Raise("ValueError", "INVALID_LABEL")

\* validate_claim_label_string
validate_claim_label_string(label_str) ==
    IF label_str.t = "NoneType"
    THEN Raise("ValueError", "NONE")
    ELSE IF label_str.t # "str"
    THEN RaiseWith("TypeError", "NOT_STRING", <<label_str.t>>)
    ELSE IF label_str.v = <<>>
    THEN Raise("ValueError", "EMPTY")
    ELSE IF label_str.v \notin valid_labels
    THEN IF Strip(label_str.v) \in valid_labels
         THEN Raise("ValueError", "INVALID_WHITESPACE")
         ELSE IF Upper(label_str.v) \in valid_labels
         THEN RaiseWith("ValueError", "MUST_BE_UPPERCASE", <<Upper(label_str.v)>>)
         ELSE Raise("ValueError", "INVALID_LABEL")
    ELSE Ok(ClaimLabelNamed(label_str.v))

(***************************************************************************)
(* GC-4 evidence-attachment validator (evidence_validators.py).            *)
(***************************************************************************)
\* parse_evidence_id of evidence_validators.py returning the string with
\* the whitespace around it removed.
gc4_parse_evidence_id_trimming(wire) ==
    IF wire.t = "NoneType"
    THEN Raise("ValueError", "NONE")
    ELSE IF wire.t # "str"
    THEN Raise("TypeError", "NOT_STRING")
    ELSE IF wire.v = <<>>
    THEN Raise("ValueError", "EMPTY")
    ELSE IF \E i \in DOMAIN wire.v : wire.v[i] \in InvisibleChars
    THEN Raise("ValueError", "INVISIBLE")
    ELSE IF Strip(wire.v) = <<>>
    THEN Raise("ValueError", "WHITESPACE_ONLY")
    ELSE IF \E i \in DOMAIN wire.v : wire.v[i] \in NonAsciiChars
    THEN Raise("ValueError", "NON_ASCII")
    ELSE Ok(Strip(wire.v))

\* parse_evidence_id of evidence_validators.py (GC-4).  Its own list of
\* invisible characters holds the same six code points as the GC-5 list, and
\* it makes no internal-whitespace check.
gc4_parse_evidence_id(wire) ==
    IF wire.t = "NoneType"
    THEN Raise("ValueError", "NONE")
    ELSE IF wire.t # "str"
    THEN Raise("TypeError", "NOT_STRING")
    ELSE IF wire.v = <<>>
    THEN Raise("ValueError", "EMPTY")
    ELSE IF \E i \in DOMAIN wire.v : wire.v[i] \in InvisibleChars
    THEN Raise("ValueError", "INVISIBLE")
    ELSE IF Strip(wire.v) = <<>>
    THEN Raise("ValueError", "WHITESPACE_ONLY")
    ELSE IF wire.v # Strip(wire.v)
    THEN Raise("ValueError", "EDGE_WHITESPACE")
    ELSE IF \E i \in DOMAIN wire.v : wire.v[i] \in NonAsciiChars
    THEN Raise("ValueError", "NON_ASCII")
    ELSE Ok(wire.v)

\* A wire list whose items are wire values.
WList(items) == [t |-> "list", items |-> items]

\* parse_evidence_ids: each item goes through parse_evidence_id and the
\* first failure is re-raised as a ValueError naming the index; then
\* duplicates are rejected.
parse_evidence_ids(wire) ==
    IF wire.t # "list"
    THEN Raise("TypeError", "NOT_LIST")
    ELSE LET parsed == [idx \in DOMAIN wire.items |->
                           gc4_parse_evidence_id(wire.items[idx])]
             failed == {idx \in DOMAIN parsed : ~parsed[idx].ok}
             parsed_ids == [idx \in DOMAIN parsed |-> parsed[idx].value]
         IN IF failed # {}
            THEN LET idx == CHOOSE i \in failed : \A j \in failed : i <= j
                 IN RaiseWith("ValueError", "EVIDENCE_IDS_ITEM_INVALID",
                              <<idx - 1, parsed[idx].error.category>>)
            ELSE IF HasDuplicates(parsed_ids)
            THEN RaiseWith("ValueError", "EVIDENCE_ID_DUP_IN_CLAIM",
                           <<{parsed_ids[i] : i \in {i \in DOMAIN parsed_ids :
                                 \E j \in DOMAIN parsed_ids :
                                     j # i /\ parsed_ids[j] = parsed_ids[i]}}>>)
            ELSE Ok(parsed_ids)

\* One entry of the error list: the category the f-string starts with and
\* the values it interpolates (index is the list index printed, -1 if none).
EvidenceError(category, claim, index, evidence_id, duplicates) ==
    [category |-> category, claim_id |-> claim.claim_id,
     label |-> claim.claim_label, index |-> index,
     evidence_id |-> evidence_id, duplicates |-> duplicates]

\* Python truthiness of "eid and eid.strip()".
NonBlank(eid) == eid # <<>> /\ Strip(eid) # <<>>

\* EvidenceValidator.validate_claim_evidence.  Reading claim.verify_falsify
\* raises AttributeError when the instance has no such attribute.
validate_claim_evidence(claim, r) ==
    LET ids == claim.evidence_ids
        nonSpec ==
            IF claim.claim_label # "SPECULATIVE" /\ Len(ids) = 0
            THEN <<EvidenceError("NON_SPEC_MISSING_EVIDENCE", claim, -1, <<>>, {})>>
            ELSE <<>>
        spec ==
            IF /\ claim.claim_label = "SPECULATIVE"
               /\ \/ claim.verify_falsify = NoneStr
                  \/ Strip(claim.verify_falsify.chars) = <<>>
            THEN <<EvidenceError("SPEC_MISSING_VERIFY_FALSIFY", claim, -1, <<>>, {})>>
            ELSE <<>>
        empties ==
            LET idx == SelectSeq([i \in DOMAIN ids |-> i], LAMBDA i : ~NonBlank(ids[i]))
            IN [k \in DOMAIN idx |->
                   EvidenceError("EVIDENCE_ID_EMPTY", claim, idx[k] - 1, <<>>, {})]
        dups ==
            IF HasDuplicates(ids)
            THEN <<EvidenceError("EVIDENCE_ID_DUP_IN_CLAIM", claim, -1, <<>>,
                     {ids[i] : i \in {j \in DOMAIN ids :
                                        \E k \in DOMAIN ids : k # j /\ ids[k] = ids[j]}})>>
            ELSE <<>>
        existing_evidence_ids == {r.evidence[i].evidence_id : i \in DOMAIN r.evidence}
        dangling ==
            LET Bad(eid) == NonBlank(eid) /\ eid \notin existing_evidence_ids
                Err(eid) == EvidenceError("DANGLING_EVIDENCE_ID", claim, -1, eid, {})
            IN LoopErrors(ids, Bad, Err)
    IN IF claim.claim_label = "SPECULATIVE" /\ "verify_falsify" \notin DOMAIN claim
       THEN Raise("AttributeError", "verify_falsify")
       ELSE Ok(nonSpec \o spec \o empties \o dups \o dangling)

\* EvidenceValidator.validate_report_evidence: the first claim whose
\* validation raises ends the call with that exception.
validate_report_evidence(r) ==
    LET per == [i \in DOMAIN r.claims |-> validate_claim_evidence(r.claims[i], r)]
        failing == {i \in DOMAIN per : ~per[i].ok}
    IN IF failing # {}
       THEN [kind |-> "raised",
             error |-> per[CHOOSE i \in failing : \A j \in failing : i <= j].error]
       ELSE LET all_errors == Flatten([i \in DOMAIN per |-> per[i].value])
            IN [kind |-> "returned", is_valid |-> Len(all_errors) = 0,
                errors |-> all_errors]

\* validate_evidence_attachment
validate_evidence_attachment(r) == validate_report_evidence(r)

(***************************************************************************)
(* Integrity aggregator (integrity.py).  A float quotient of two small     *)
(* integers is the fraction in lowest terms: two quotients are the same    *)
(* float exactly when they are the same fraction.  A reason is the text of *)
(* its f-string and the values it interpolates.                            *)
(***************************************************************************)
RECURSIVE Gcd(_, _)
Gcd(a, b) == IF b = 0 THEN a ELSE Gcd(b, a % b)

Quotient(a, b) == [num |-> a \div Gcd(a, b), den |-> b \div Gcd(a, b)]
Zero == [num |-> 0, den |-> 1]

Reason(text, args) == [text |-> text, args |-> args]

\* xs[:n]
Prefix(xs, n) == SubSeq(xs, 1, IF Len(xs) < n THEN Len(xs) ELSE n)

\* "for claim in unsupported_claims[:5]" and "claim.statement[:80]"
ReasonClaimLimit == 5
StatementPreview == 80

NonSpeculative(c) == c.claim_label # "SPECULATIVE"
Unsupported(c) == ~is_supported(c)

\* Variant: the rate is taken over all claims.
compute_unsupported_claim_rate_over_all(cs) ==
    LET non_speculative_claims == SelectSeq(cs, NonSpeculative)
        unsupported_claims == SelectSeq(non_speculative_claims, Unsupported)
    IN IF Len(non_speculative_claims) = 0
       THEN Zero
       ELSE Quotient(Len(unsupported_claims), Len(cs))

\* compute_unsupported_claim_rate
compute_unsupported_claim_rate(cs) ==
    LET non_speculative_claims == SelectSeq(cs, NonSpeculative)
        unsupported_claims == SelectSeq(non_speculative_claims, Unsupported)
    IN IF Len(non_speculative_claims) = 0
       THEN Zero
       ELSE Quotient(Len(unsupported_claims), Len(non_speculative_claims))

\* Variant: every claim counts as non-speculative.
finalization_check_ignoring_label(cs) ==
    LET unsupported_claims == SelectSeq(cs, LAMBDA c : Len(c.evidence_ids) = 0)
    IN IF Len(cs) = 0
       THEN [can_finalize |-> FALSE,
             reasons |-> <<Reason("No claims extracted - cannot finalize", <<>>),
                           Reason("Checklist:", <<>>),
                           Reason("  - Provide derivation steps with explicit claims",
                                  <<>>)>>]
       ELSE IF Len(unsupported_claims) > 0
       THEN [can_finalize |-> FALSE,
             reasons |-> <<Reason("Found unsupported non-SPECULATIVE claim(s)",
                                  <<Len(unsupported_claims)>>)>>]
       ELSE [can_finalize |-> TRUE, reasons |-> <<>>]

\* finalization_check
finalization_check(cs) ==
    LET non_speculative_claims == SelectSeq(cs, NonSpeculative)
        unsupported_claims == SelectSeq(non_speculative_claims, Unsupported)
        shown == Prefix(unsupported_claims, ReasonClaimLimit)
    IN IF Len(cs) = 0
       THEN [can_finalize |-> FALSE,
             reasons |->
               << Reason("No claims extracted - cannot finalize", <<>>),
                  Reason("Checklist:", <<>>),
                  Reason("  - Provide derivation steps with explicit claims", <<>>),
                  Reason("  - OR provide equations/identities to verify", <<>>),
                  Reason("  - OR provide source attributions/citations", <<>>),
                  Reason("  - OR explicitly state 'no derivation possible yet' with explanation",
                         <<>>) >>]
       ELSE IF Len(non_speculative_claims) = 0
       THEN [can_finalize |-> TRUE, reasons |-> <<>>]
       ELSE IF Len(unsupported_claims) > 0
       THEN [can_finalize |-> FALSE,
             reasons |->
               << Reason("Found unsupported non-SPECULATIVE claim(s)",
                         <<Len(unsupported_claims)>>),
                  Reason("Unsupported claim rate",
                         <<Len(unsupported_claims), Len(non_speculative_claims),
                           compute_unsupported_claim_rate(cs)>>) >>
               \o [k \in DOMAIN shown |->
                      Reason("  - [label] statement...",
                             <<shown[k].claim_label,
                               Prefix(shown[k].statement, StatementPreview)>>)]
               \o (IF Len(unsupported_claims) > ReasonClaimLimit
                   THEN <<Reason("  ... and more",
                                 <<Len(unsupported_claims) - ReasonClaimLimit>>)>>
                   ELSE <<>>)]
       ELSE [can_finalize |-> TRUE, reasons |-> <<>>]

(***************************************************************************)
(* Inputs of the operations.                                               *)
(***************************************************************************)
\* The id str(uuid4()) returns for the n-th record: unused so far.
FreshClaimId(n) == "c" \o ToString(n)
FreshStepId(n) == "s" \o ToString(n)
EvidenceId(n) == <<"e", ToString(n)>>

AStatement == <<"x">>

\* The label given to created claims where only the reference structure is
\* validated (the structural validator never reads the label).
CreatedLabels == {"DERIVED"}

\* claim_ids lists that pass DerivationStep.__post_init__.
StepClaimIdLists == {l \in SeqsUpTo(ClaimRefPool, 2) : l # <<>> /\ ~HasDuplicates(l)}
StepDepLists == SeqsUpTo(StepRefPool, 1)

\* The lists of the dependency specification: one claim per step, up to
\* two dependencies (repeated entries included).
SingleClaimLists == {<<c>> : c \in ClaimRefPool}
LongDepLists == SeqsUpTo(StepRefPool, 2)

\* evidence_ids a caller attaches to a claim.
EvidenceRefPool == {EvidenceId(n) : n \in 1..MaxEvidence}
EvidenceIdLists == SeqsUpTo(EvidenceRefPool, 1)

\* A whitespace-only evidence id, and the longer evidence_ids lists of the
\* attachment specification: up to two entries, repeated, unresolved and
\* blank entries included.
BlankEvidenceId == <<" ">>
LongEvidenceIdLists == SeqsUpTo(EvidenceRefPool \cup {BlankEvidenceId}, 2)
AttachLabels == {"DERIVED", "SPECULATIVE"}

\* Explicit ids a caller passes to the constructors.
ClaimIdInputs == {"c1", "c2"}
StepIdInputs == {"s1", "s2"}
EvidenceIdInputs == {EvidenceId(1), EvidenceId(2)}

\* The verify_falsify keyword a caller may pass to Claim(...): not passed,
\* or None, whitespace only, or a text.
VerifyFalsifyInputs == {NoneStr, SomeStr(<<" ", " ">>), SomeStr(<<"t">>)}

\* Arguments of EvidenceObject(...): ids with and without blanks, enum
\* members and a value of another type, tagged unions and a plain dict,
\* reasons and notes present or absent.
ObjectIdInputs == {EvidenceId(1), BlankEvidenceId, <<" ", "e", "1">>}
NotAnEnumMember == "str"
ObjectTypeInputs == EvidenceType \cup {NotAnEnumMember}
ObjectStatusInputs == EvidenceStatus \cup {NotAnEnumMember}
ObjectSourceInputs ==
    {EvidenceSource(k, <<"v">>).value : k \in SourceKinds}
        \cup {[cls |-> "dict", kind |-> "step_id", value |-> <<"v">>]}
ObjectPayloadInputs ==
    {PayloadRef("log_id", <<"l", "1">>).value,
     [cls |-> "dict", kind |-> "log_id", value |-> <<"l", "1">>]}
ObjectReasonInputs == {None, "timeout", NotAnEnumMember}
ObjectNotesInputs == {NoneStr, SomeStr(<<" ">>), SomeStr(<<"n">>)}

\* Arguments of DerivationStep(...): claim_ids lists with the empty list and
\* repeated ids, statuses, reasons absent, empty, blank and present.
StepClaimIdInputs == SeqsUpTo(ClaimIdInputs, 2)
StepStatusInputs == StepStatus \cup {NotAnEnumMember}
StepReasonInputs ==
    {NoneStr, SomeStr(<<>>), SomeStr(<<" ">>), SomeStr(<<"LF", "TAB">>),
     SomeStr(<<"r">>), SomeStr(<<" ", "r">>)}

\* Arguments of Claim(...): statements empty, blank and present; labels, None
\* and a value of another type; the label left out; an undeclared keyword.
ClaimStatementInputs == {<<>>, <<" ">>, <<"LF", " ">>, <<"x">>, <<" ", "x">>}
ClaimLabelInputs == ClaimLabel \cup {None, NotAnEnumMember}
ClaimKwInputs ==
    {[claim_id |-> "c1", claim_label |-> l, statement |-> t] :
        l \in ClaimLabelInputs, t \in ClaimStatementInputs}
    \cup {[claim_id |-> "c1", statement |-> t] : t \in ClaimStatementInputs}
    \cup {[claim_id |-> "c1", claim_label |-> "SPECULATIVE", statement |-> t,
           verify_falsify |-> vf] :
             t \in ClaimStatementInputs, vf \in VerifyFalsifyInputs}

\* Arguments of EvidenceSource(...) and PayloadRef(...): kinds of both unions,
\* values empty, blank, with edge and with inner whitespace.
TaggedKindInputs == SourceKinds \cup PayloadKinds
TaggedValueInputs == {<<>>, <<" ">>, <<"v">>, <<"v", " ">>, <<"TAB", "v">>, <<"v", " ", "w">>}

\* Arguments of ScientificReport(...): lists of well-formed records whose
\* ids may collide.
AClaim(id) == Claim([claim_id |-> id, claim_label |-> "DERIVED", statement |-> AStatement]).value
AStep(id) == DerivationStep([claim_ids |-> <<"c1">>, step_id |-> id]).value
ReportClaimInputs == SeqsUpTo({AClaim(id) : id \in ClaimIdInputs}, MaxClaims)
ReportStepInputs == SeqsUpTo({AStep(id) : id \in StepIdInputs}, MaxSteps)

\* Wire objects handed to parse_evidence_object: each key absent or one of
\* a few values of the right and of a wrong form; and wires that are no
\* objects.
Absent == [t |-> "absent", v |-> <<>>]
WTagged(kind, value) == WDict([kind |-> WStr(Spelling[kind]), value |-> WStr(value)])
WireIdInputs == {Absent, WStr(EvidenceId(1)), WStr(<<"e", " ", "1">>), WOther("int")}
WireTypeInputs ==
    {Absent, WStr(Spelling["derivation"]), WStr(Spelling["citation"]),
     WStr(<<"D", "e", "r", "i", "v", "a", "t", "i", "o", "n">>)}
WireSourceInputs ==
    {Absent, WNone, WTagged("step_id", <<"v">>), WTagged("tool_run_id", <<"v">>),
     WDict([kind |-> WStr(Spelling["step_id"])])}
WireStatusInputs ==
    {Absent, WStr(Spelling["pass"]), WStr(Spelling["indeterminate"]), WOther("bool")}
WirePayloadInputs == {Absent, WTagged("log_id", <<"l", "1">>), WTagged("log_id", <<" ", "l">>)}
WireReasonInputs == {Absent, WNone, WStr(Spelling["timeout"]), WStr(<<"b", "o", "g", "u", "s">>)}
WireNotesInputs == {Absent, WStr(<<" ">>), WStr(<<"n">>), WOther("int")}
WireNonObjects == {WNone, WStr(<<"x">>), WOther("list")}

\* The dict holding the keys that are not absent.
WithoutAbsent(items) == [k \in {k \in DOMAIN items : items[k] # Absent} |-> items[k]]

\* str.lower() of a label, character by character.
Lower(s) ==
    [i \in DOMAIN s |->
        IF \E k \in DOMAIN UppercaseLetters : UppercaseLetters[k] = s[i]
        THEN LowercaseLetters[CHOOSE k \in DOMAIN UppercaseLetters : UppercaseLetters[k] = s[i]]
        ELSE s[i]]

\* The string with every occurrence of one character replaced by another.
Replaced(s, old, new) == [i \in DOMAIN s |-> IF s[i] = old THEN new ELSE s[i]]

\* Wire values offered as a claim label: the four labels; their case
\* variants; each label with one whitespace, invisible or non-ASCII space
\* character before or after it; look-alike spellings; strings that are no
\* label at all; and values that are not strings.
LabelEdgeChars == (PyWhitespace \cup InvisibleChars)
LabelWireInputs ==
    LET exact == valid_labels
        lower == {Lower(l) : l \in exact}
        mixed == {<<Lower(l)[1]>> \o Tail(l) : l \in exact}
        led == {<<c>> \o l : c \in LabelEdgeChars, l \in exact}
        trailed == {l \o <<c>> : c \in LabelEdgeChars, l \in exact}
        split == {<<Head(l)>> \o <<c>> \o Tail(l) : c \in {" ", "ZWSP"}, l \in exact}
        alike == {Replaced(l, "E", "CYR_E") : l \in exact}
                     \cup {Replaced(Lower(l), "i", "DOTLESS_I") : l \in exact}
        other == {<<>>, <<" ">>, <<"X">>, <<"D", "E", "R", "I", "V", "E">>,
                  Spelling.DERIVED \o <<"X">>, Spelling.derivation}
    IN {WStr(v) : v \in exact \cup lower \cup mixed \cup led \cup trailed
                          \cup split \cup alike \cup other}
       \cup {WNone} \cup {WOther(t) : t \in {"bool", "int", "float", "list", "dict", "bytes"}}

\* Strings built from the given words that hold an invisible character
\* together with something a later check would also reject: whitespace at
\* an end, nothing but invisible characters, or another non-ASCII character.
InvisibleMixes(words) ==
    {<<w>> \o x \o <<c>> : w \in {" ", "TAB"}, c \in InvisibleChars, x \in words}
        \cup {<<c>> \o x \o <<w>> : w \in {" ", "LF"}, c \in InvisibleChars, x \in words}
        \cup {x \o <<c, "CYR_E">> : c \in InvisibleChars, x \in words}
        \cup {<<c>> : c \in InvisibleChars}
        \cup {<<"NBSP", "NBSP">>, <<" ", "NBSP">>, <<"NBSP", "ZWSP">>}

\* Every spelling of the word in which each letter is in either case.
CaseSpellings(word) ==
    {v \in [DOMAIN word -> Range(word) \cup Range(Lower(word))] :
        \A i \in DOMAIN word : v[i] \in {word[i], Lower(word)[i]}}

\* Wire values offered to parse_claim_label: LabelWireInputs; the label
\* strings, in either case, mixed with an invisible character; every case
\* spelling of CITED; labels with whitespace on both sides; and lower-case
\* labels after a space.
LabelTokenInputs ==
    LabelWireInputs
        \cup {WStr(v) : v \in InvisibleMixes(valid_labels \cup {Lower(l) : l \in valid_labels})}
        \cup {WStr(v) : v \in CaseSpellings(Spelling.CITED)}
        \cup {WStr(<<a>> \o l \o <<b>>) :
                  a \in {" ", "TAB", "EMSP"}, b \in {" ", "LF"}, l \in valid_labels}
        \cup {WStr(<<c>> \o Lower(l)) : c \in {" ", "EMSP"}, l \in valid_labels}

\* Wire values offered as an evidence id: well-formed ids; an id with one
\* whitespace or invisible character before, after or inside it; ids with a
\* non-ASCII letter or space; whitespace-only and empty strings; mixes with
\* invisible characters; and values that are not strings.
IdWords == {EvidenceId(1), <<"E", "V", "_", "2">>}
NonStringWires ==
    {WNone} \cup {WOther(t) : t \in {"bool", "int", "float", "list", "dict", "bytes"}}
IdStringInputs ==
    LET led == {<<c>> \o x : c \in LabelEdgeChars, x \in IdWords}
        trailed == {x \o <<c>> : c \in LabelEdgeChars, x \in IdWords}
        split == {<<Head(x)>> \o <<c>> \o Tail(x) : c \in LabelEdgeChars, x \in IdWords}
        alike == {x \o <<c>> : c \in {"CYR_E", "DOTLESS_I"}, x \in IdWords}
                     \cup {<<"CYR_E">>, <<"EMSP", "CYR_E">>}
        blank == {<<c>> : c \in PyWhitespace} \cup {<<" ", " ">>, <<" ", "TAB">>, <<>>}
    IN IdWords \cup led \cup trailed \cup split \cup alike \cup blank
           \cup InvisibleMixes(IdWords)
IdWireInputs == {WStr(v) : v \in IdStringInputs} \cup NonStringWires

\* Wire values offered as the value of an enum: the values of its members,
\* the same in capitals or with a space or invisible character at an end,
\* the value of a member of another enum, and values that are not strings.
EnumWireInputs(members) ==
    LET exact == Spelled(members)
    IN {WStr(v) : v \in exact \cup {Upper(x) : x \in exact}
                         \cup {<<c>> \o x : c \in {" ", "ZWSP"}, x \in exact}
                         \cup {x \o <<c>> : c \in {" ", "LF", "NBSP"}, x \in exact}
                         \cup {<<>>, <<"x">>, Spelling.DERIVED, Spelling.step_id}}
           \cup NonStringWires

\* Wire values offered as a tagged union: values that are not objects, and
\* objects whose "kind" and "value" keys are each absent or hold a wire
\* value, with or without one further key.
UnionKindInputs ==
    {Absent, WNone, WOther("int"), WStr(<<>>), WStr(Upper(Spelling.step_id)),
     WStr(<<" ">> \o Spelling.log_id)}
        \cup {WStr(k) : k \in Spelled(SourceKinds \cup PayloadKinds)}
UnionValueInputs == {Absent} \cup IdWireInputs
UnionExtraInputs == {Absent, WStr(<<"x">>)}
UnionObject(kind, value, extra) ==
    WDict(WithoutAbsent([extra |-> extra, kind |-> kind, value |-> value]))

\* Wire values offered as a list of evidence ids: lists of up to two items
\* drawn from well-formed ids, ids with a space, tab, carriage return or
\* line feed at an end, and items that are no id at all; and values that
\* are not lists.
IdListItemInputs ==
    {WStr(x) : x \in IdWords}
        \cup {WStr(<<" ">> \o EvidenceId(1)), WStr(EvidenceId(1) \o <<"TAB">>),
              WStr(<<"LF">> \o EvidenceId(1)), WStr(EvidenceId(1) \o <<"CR">>),
              WStr(<<"NBSP">> \o EvidenceId(1)), WStr(<<>>), WNone, WOther("int")}
IdListWireInputs == {WList(items) : items \in SeqsUpTo(IdListItemInputs, 2)}
NotListWireInputs == {WNone, WStr(EvidenceId(1)), WOther("dict")}

\* A well-formed EvidenceObject with the given id.
AnEvidenceObject(evidence_id) ==
    EvidenceObject([evidence_id |-> evidence_id, evidence_type |-> "derivation",
                    source |-> EvidenceSource("step_id", <<"s", "1">>).value,
                    status |-> "pass",
                    payload_ref |-> PayloadRef("log_id", <<"l", "1">>).value,
                    status_reason |-> None, notes |-> NoneStr])

(***************************************************************************)
(* Operations.  Records are constructed and collected by the caller, the   *)
(* report is assembled from the collected lists, then validated.           *)
(***************************************************************************)
Init ==
    /\ claims = <<>>
    /\ steps = <<>>
    /\ evidence = <<>>
    /\ report = NoReport
    /\ raised = NoError
    /\ structResult = NotRun
    /\ structPrev = NotRun
    /\ evidResult = NotRun
    /\ evidPrev = NotRun
    /\ finalResult = NotRun
    /\ rateResult = NotRun
    /\ attempt = NoAttempt
    /\ returned = NotRun

\* The caller keeps the record a constructor returned; a constructor that
\* raised returns nothing.
Keep(list, res) == IF res.ok THEN Append(list, res.value) ELSE list
Outcome(res) == IF res.ok THEN NoError ELSE res.error

AddClaim(res) ==
    /\ report = NoReport
    /\ Len(claims) < MaxClaims
    /\ claims' = Keep(claims, res)
    /\ raised' = Outcome(res)
    /\ UNCHANGED <<steps, evidence, report, structResult, structPrev,
                   evidResult, evidPrev, integrity, call>>

AddStep(res) ==
    /\ report = NoReport
    /\ Len(steps) < MaxSteps
    /\ steps' = Keep(steps, res)
    /\ raised' = Outcome(res)
    /\ UNCHANGED <<claims, evidence, report, structResult, structPrev,
                   evidResult, evidPrev, integrity, call>>

AddEvidence(res) ==
    /\ report = NoReport
    /\ Len(evidence) < MaxEvidence
    /\ evidence' = Keep(evidence, res)
    /\ raised' = Outcome(res)
    /\ UNCHANGED <<claims, steps, report, structResult, structPrev,
                   evidResult, evidPrev, integrity, call>>

\* Claim.create(statement, label)
CreateClaim ==
    \E label \in CreatedLabels :
        AddClaim(ClaimCreate(FreshClaimId(Len(claims) + 1), AStatement, label))

\* DerivationStep(step_id, claim_ids, depends_on=...) with an unused step_id
CreateStep ==
    \E cids \in StepClaimIdLists, deps \in StepDepLists :
        AddStep(DerivationStep([step_id |-> FreshStepId(Len(steps) + 1),
                                claim_ids |-> cids, depends_on |-> deps]))

\* The same with one claim per step and longer dependency lists.
CreateDependentStep ==
    \E cids \in SingleClaimLists, deps \in LongDepLists :
        AddStep(DerivationStep([step_id |-> FreshStepId(Len(steps) + 1),
                                claim_ids |-> cids, depends_on |-> deps]))

\* Claim(claim_id=..., ...) with an explicit id
NewClaim ==
    \E id \in ClaimIdInputs :
        AddClaim(Claim([claim_id |-> id, statement |-> AStatement,
                        claim_label |-> "DERIVED"]))

\* DerivationStep(step_id=..., ...) with an explicit id
NewStep ==
    \E id \in StepIdInputs :
        AddStep(DerivationStep([step_id |-> id, claim_ids |-> <<"c1">>]))

\* EvidenceObject(evidence_id=..., ...) with an explicit id
NewEvidence ==
    \E id \in EvidenceIdInputs : AddEvidence(AnEvidenceObject(id))

\* EvidenceObject(...) with an unused id
CreateEvidence ==
    AddEvidence(AnEvidenceObject(EvidenceId(Len(evidence) + 1)))

\* Claim(..., claim_label=label, evidence_ids=ids)
NewLabelledClaim ==
    \E label \in ClaimLabel, ids \in EvidenceIdLists :
        AddClaim(Claim([claim_id |-> FreshClaimId(Len(claims) + 1),
                        statement |-> AStatement, claim_label |-> label,
                        evidence_ids |-> ids]))

\* Claim(..., claim_label=SPECULATIVE, verify_falsify=vf), as the GC-4 tests
\* construct a speculative claim
NewClaimWithVerifyFalsify ==
    \E vf \in VerifyFalsifyInputs :
        AddClaim(Claim([claim_id |-> FreshClaimId(Len(claims) + 1),
                        statement |-> AStatement, claim_label |-> "SPECULATIVE",
                        evidence_ids |-> <<>>, verify_falsify |-> vf]))

\* Claim(..., claim_label=label, evidence_ids=ids) with a longer list
NewClaimWithEvidence ==
    \E label \in AttachLabels, ids \in LongEvidenceIdLists :
        AddClaim(Claim([claim_id |-> FreshClaimId(Len(claims) + 1),
                        statement |-> AStatement, claim_label |-> label,
                        evidence_ids |-> ids]))

\* Claim(..., claim_label=label, evidence_ids=ids) with at most one id
NewBriefClaim ==
    \E label \in AttachLabels, ids \in EvidenceIdLists :
        AddClaim(Claim([claim_id |-> FreshClaimId(Len(claims) + 1),
                        statement |-> AStatement, claim_label |-> label,
                        evidence_ids |-> ids]))

\* Claim.create(statement, label): a claim that has no evidence id yet
NewCreatedClaim ==
    \E label \in AttachLabels :
        AddClaim(ClaimCreate(FreshClaimId(Len(claims) + 1), AStatement, label))

\* ScientificReport(claims=claims, steps=steps, evidence=evidence)
AssembleReport ==
    /\ report = NoReport
    /\ LET res == ScientificReport(claims, steps, evidence) IN
         /\ report' = IF res.ok THEN res.value ELSE NoReport
         /\ raised' = Outcome(res)
    /\ UNCHANGED <<claims, steps, evidence, structResult, structPrev,
                   evidResult, evidPrev, integrity, call>>

\* Variant: the run leaves the report's claims in reverse order.
ValidateStructure_reordering_claims ==
    /\ report # NoReport
    /\ structResult' = validate_report_structure(report)
    /\ structPrev' = structResult
    /\ raised' = NoError
    /\ report' = [report EXCEPT !.claims =
                     [i \in DOMAIN report.claims |->
                        report.claims[Len(report.claims) + 1 - i]]]
    /\ UNCHANGED <<claims, steps, evidence, evidResult, evidPrev, integrity, call>>

\* validate_report_structure(report); the caller keeps the result of the
\* run before this one.
ValidateStructure ==
    /\ report # NoReport
    /\ structResult' = validate_report_structure(report)
    /\ structPrev' = structResult
    /\ raised' = NoError
    /\ UNCHANGED <<claims, steps, evidence, report, evidResult, evidPrev,
                   integrity, call>>

\* validate_evidence_attachment(report); the caller keeps the outcome of
\* the run before this one.
ValidateEvidence ==
    /\ report # NoReport
    /\ LET out == validate_evidence_attachment(report) IN
         /\ evidResult' = out
         /\ raised' = IF out.kind = "raised" THEN out.error ELSE NoError
    /\ evidPrev' = evidResult
    /\ UNCHANGED <<claims, steps, evidence, report, structResult, structPrev,
                   integrity, call>>

\* A single constructor or parser call: the caller holds what it returned,
\* or the exception it raised.
Try(cls, kw, res) ==
    /\ attempt' = [cls |-> cls, kw |-> kw]
    /\ returned' = res
    /\ raised' = Outcome(res)
    /\ UNCHANGED <<claims, steps, evidence, report, structResult, structPrev,
                   evidResult, evidPrev, integrity>>

\* The single calls share no state, so a behaviour makes one of them.
NoCallYet == attempt = NoAttempt

\* EvidenceObject(evidence_id=..., evidence_type=..., source=..., status=...,
\*                payload_ref=..., status_reason=..., notes=...)
TryEvidenceObject ==
    /\ NoCallYet
    /\ \E id \in ObjectIdInputs, type \in ObjectTypeInputs, src \in ObjectSourceInputs,
          st \in ObjectStatusInputs, payload \in ObjectPayloadInputs,
          reason \in ObjectReasonInputs, text \in ObjectNotesInputs :
           LET kw == [evidence_id |-> id, evidence_type |-> type, notes |-> text,
                      payload_ref |-> payload, source |-> src, status |-> st,
                      status_reason |-> reason]
           IN Try("EvidenceObject", kw, EvidenceObject(kw))

\* DerivationStep(step_id=..., claim_ids=..., step_status=..., status_reason=...)
TryStep ==
    /\ NoCallYet
    /\ \E cids \in StepClaimIdInputs, st \in StepStatusInputs, reason \in StepReasonInputs :
           LET kw == [claim_ids |-> cids, status_reason |-> reason, step_id |-> "s1",
                      step_status |-> st]
           IN Try("DerivationStep", kw, DerivationStep(kw))

\* Claim(**kw)
TryClaim ==
    /\ NoCallYet
    /\ \E kw \in ClaimKwInputs : Try("Claim", kw, Claim(kw))

\* EvidenceSource(kind=..., value=...)
TryEvidenceSource ==
    /\ NoCallYet
    /\ \E kind \in TaggedKindInputs, value \in TaggedValueInputs :
           Try("EvidenceSource", [kind |-> kind, value |-> value], EvidenceSource(kind, value))

\* PayloadRef(kind=..., value=...)
TryPayloadRef ==
    /\ NoCallYet
    /\ \E kind \in TaggedKindInputs, value \in TaggedValueInputs :
           Try("PayloadRef", [kind |-> kind, value |-> value], PayloadRef(kind, value))

\* ScientificReport(claims=..., steps=..., evidence=...)
TryReport ==
    /\ NoCallYet
    /\ \E cs \in ReportClaimInputs, ss \in ReportStepInputs,
          ids \in SeqsUpTo(EvidenceIdInputs, MaxEvidence) :
           LET es == [i \in DOMAIN ids |-> AnEvidenceObject(ids[i]).value]
           IN Try("ScientificReport", [claims |-> cs, evidence |-> es, steps |-> ss],
                  ScientificReport(cs, ss, es))

\* parse_evidence_object(wire)
TryParseEvidenceObject ==
    /\ NoCallYet
    /\ \/ \E wire \in WireNonObjects :
             Try("parse_evidence_object", [wire |-> wire], parse_evidence_object(wire))
       \/ \E id \in WireIdInputs, type \in WireTypeInputs, src \in WireSourceInputs,
             st \in WireStatusInputs, payload \in WirePayloadInputs,
             reason \in WireReasonInputs, text \in WireNotesInputs :
             LET wire == WDict(WithoutAbsent(
                             [evidence_id |-> id, evidence_type |-> type, notes |-> text,
                              payload_ref |-> payload, source |-> src, status |-> st,
                              status_reason |-> reason]))
             IN Try("parse_evidence_object", [wire |-> wire], parse_evidence_object(wire))

\* parse_claim_label(wire)
TryParseClaimLabel ==
    /\ NoCallYet
    /\ \E wire \in LabelWireInputs :
           Try("parse_claim_label", [wire |-> wire], parse_claim_label(wire))

\* validate_claim_label_string(label_str)
TryValidateClaimLabelString ==
    /\ NoCallYet
    /\ \E wire \in LabelWireInputs :
           Try("validate_claim_label_string", [wire |-> wire],
               validate_claim_label_string(wire))

\* parse_claim_label(wire), on the wider set of label strings
TryParseClaimLabelToken ==
    /\ NoCallYet
    /\ \E wire \in LabelTokenInputs :
           Try("parse_claim_label", [wire |-> wire], parse_claim_label(wire))

\* evidence_validators.parse_evidence_id(wire)
TryGc4ParseEvidenceId ==
    /\ NoCallYet
    /\ \E wire \in IdWireInputs :
           Try("evidence_validators.parse_evidence_id", [wire |-> wire],
               gc4_parse_evidence_id(wire))

\* gc5_wire_parsers.parse_evidence_id(wire)
TryParseEvidenceId ==
    /\ NoCallYet
    /\ \E wire \in IdWireInputs :
           Try("gc5_wire_parsers.parse_evidence_id", [wire |-> wire],
               parse_evidence_id(wire))

\* parse_evidence_type(wire)
TryParseEvidenceType ==
    /\ NoCallYet
    /\ \E wire \in EnumWireInputs(EvidenceType) :
           Try("parse_evidence_type", [wire |-> wire], parse_evidence_type(wire))

\* parse_evidence_status(wire)
TryParseEvidenceStatus ==
    /\ NoCallYet
    /\ \E wire \in EnumWireInputs(EvidenceStatus) :
           Try("parse_evidence_status", [wire |-> wire], parse_evidence_status(wire))

\* parse_indeterminate_reason(wire)
TryParseIndeterminateReason ==
    /\ NoCallYet
    /\ \E wire \in EnumWireInputs(IndeterminateReason) :
           Try("parse_indeterminate_reason", [wire |-> wire],
               parse_indeterminate_reason(wire))

\* parse_evidence_source(wire)
TryParseEvidenceSource ==
    /\ NoCallYet
    /\ \/ \E wire \in WireNonObjects :
             Try("parse_evidence_source", [wire |-> wire], parse_evidence_source(wire))
       \/ \E kind \in UnionKindInputs, value \in UnionValueInputs,
             extra \in UnionExtraInputs :
             LET wire == UnionObject(kind, value, extra)
             IN Try("parse_evidence_source", [wire |-> wire], parse_evidence_source(wire))

\* parse_payload_ref(wire)
TryParsePayloadRef ==
    /\ NoCallYet
    /\ \/ \E wire \in WireNonObjects :
             Try("parse_payload_ref", [wire |-> wire], parse_payload_ref(wire))
       \/ \E kind \in UnionKindInputs, value \in UnionValueInputs,
             extra \in UnionExtraInputs :
             LET wire == UnionObject(kind, value, extra)
             IN Try("parse_payload_ref", [wire |-> wire], parse_payload_ref(wire))

\* parse_evidence_ids(wire)
TryParseEvidenceIds ==
    /\ NoCallYet
    /\ \/ \E wire \in IdListWireInputs :
             Try("parse_evidence_ids", [wire |-> wire], parse_evidence_ids(wire))
       \/ \E wire \in NotListWireInputs :
             Try("parse_evidence_ids", [wire |-> wire], parse_evidence_ids(wire))

\* claim.evidence_ids.append(evidence_id) on a claim of the assembled
\* report, before final validation.  The report's list and the caller's
\* list hold the same Claim objects, so both show the new id.  Each claim
\* receives the ids e1, e2, ... in turn.
AttachEvidence ==
    /\ report # NoReport
    /\ \E i \in DOMAIN report.claims :
           /\ Len(report.claims[i].evidence_ids) < MaxEvidence
           /\ \E evidence_id \in {EvidenceId(Len(report.claims[i].evidence_ids) + 1)} :
                  /\ report' = [report EXCEPT !.claims[i].evidence_ids =
                                                  Append(@, evidence_id)]
                  /\ claims' = [claims EXCEPT ![i].evidence_ids = Append(@, evidence_id)]
    /\ raised' = NoError
    /\ UNCHANGED <<steps, evidence, structResult, structPrev, evidResult, evidPrev,
                   integrity, call>>

\* finalization_check(report.claims)
FinalizationCheck ==
    /\ report # NoReport
    /\ finalResult' = finalization_check(report.claims)
    /\ raised' = NoError
    /\ UNCHANGED <<claims, steps, evidence, report, structResult, structPrev,
                   evidResult, evidPrev, rateResult, call>>

\* compute_unsupported_claim_rate(report.claims)
ComputeRate ==
    /\ report # NoReport
    /\ rateResult' = compute_unsupported_claim_rate(report.claims)
    /\ raised' = NoError
    /\ UNCHANGED <<claims, steps, evidence, report, structResult, structPrev,
                   evidResult, evidPrev, finalResult, call>>

\* Structure: created claims and steps, assembled and validated.
Next == CreateClaim \/ CreateStep \/ AssembleReport \/ ValidateStructure
Spec == Init /\ [][Next]_vars

\* Dependencies: one claim per step, longer depends_on lists.
NextDeps == CreateClaim \/ CreateDependentStep \/ AssembleReport \/ ValidateStructure
SpecDeps == Init /\ [][NextDeps]_vars

\* Assembly: records with caller-chosen ids, which may collide.
NextReport == NewClaim \/ NewStep \/ NewEvidence \/ AssembleReport
SpecReport == Init /\ [][NextReport]_vars

\* Evidence: labelled claims with evidence ids, assembled and validated.
NextEvidence ==
    \/ NewLabelledClaim
    \/ NewClaimWithVerifyFalsify
    \/ CreateEvidence
    \/ AssembleReport
    \/ ValidateEvidence
SpecEvidence == Init /\ [][NextEvidence]_vars

\* Integrity: labelled claims, assembled, validated and aggregated.
NextIntegrity ==
    \/ NewLabelledClaim
    \/ CreateEvidence
    \/ AssembleReport
    \/ ValidateEvidence
    \/ FinalizationCheck
    \/ ComputeRate
SpecIntegrity == Init /\ [][NextIntegrity]_vars

\* Repeated runs: both validators and the aggregator on one report.
NextRepeat ==
    \/ NewBriefClaim
    \/ NewStep
    \/ CreateEvidence
    \/ AssembleReport
    \/ ValidateStructure
    \/ ValidateEvidence
    \/ FinalizationCheck
    \/ ComputeRate
SpecRepeat == Init /\ [][NextRepeat]_vars

\* Records: single constructor calls with well-formed and ill-formed
\* arguments.
NextRecords ==
    \/ TryClaim
    \/ TryStep
    \/ TryEvidenceSource
    \/ TryPayloadRef
    \/ TryEvidenceObject
    \/ TryReport
    \/ TryParseEvidenceObject
SpecRecords == Init /\ [][NextRecords]_vars

\* Labels: single calls of the two claim-label parsers on wire values.
NextLabels == TryParseClaimLabel \/ TryValidateClaimLabelString
SpecLabels == Init /\ [][NextLabels]_vars

\* Attachment of evidence to the claims of an assembled report, with the
\* finalize decision and the rate computed at any point.
NextSupport ==
    \/ NewCreatedClaim
    \/ AssembleReport
    \/ AttachEvidence
    \/ FinalizationCheck
    \/ ComputeRate
SpecSupport == Init /\ [][NextSupport]_vars

\* Tokens: single calls of the wire parsers of string tokens and of the
\* tagged unions that carry one.
NextTokens ==
    \/ TryParseClaimLabelToken
    \/ TryGc4ParseEvidenceId
    \/ TryParseEvidenceId
    \/ TryParseEvidenceType
    \/ TryParseEvidenceStatus
    \/ TryParseIndeterminateReason
    \/ TryParseEvidenceSource
    \/ TryParsePayloadRef
    \/ TryParseEvidenceIds
SpecTokens == Init /\ [][NextTokens]_vars

\* Attachment: claims with longer evidence_ids lists, assembled and validated.
NextAttach == NewClaimWithEvidence \/ CreateEvidence \/ AssembleReport \/ ValidateEvidence
SpecAttach == Init /\ [][NextAttach]_vars

(***************************************************************************)
(* Properties.  The report's reference structure is described here by sets *)
(* and counts over the report, independently of the validator's loops.     *)
(***************************************************************************)
Count(xs, P(_)) == Len(SelectSeq(xs, P))

StructureValidated == structResult # NotRun

ClaimIdSet(r) == {r.claims[j].claim_id : j \in DOMAIN r.claims}
StepIdSet(r) == {r.steps[i].step_id : i \in DOMAIN r.steps}

\* The (step index, entry index) pairs of claim_ids whose entry is cid.
Listings(r, cid) ==
    UNION {{<<i, k>> : k \in {n \in DOMAIN r.steps[i].claim_ids :
                                  r.steps[i].claim_ids[n] = cid}} :
           i \in DOMAIN r.steps}

\* The indices of the steps that list cid.
Owners(r, cid) == {i \in DOMAIN r.steps : cid \in Range(r.steps[i].claim_ids)}

\* The (step index, entry index) pairs of claim_ids that resolve to no claim.
DanglingClaimEntries(r) ==
    UNION {Listings(r, cid) : cid \in ClaimRefPool \ ClaimIdSet(r)}

\* The (step index, entry index) pairs of depends_on that resolve to no step.
DanglingDepEntries(r) ==
    UNION {{<<i, k>> : k \in {n \in DOMAIN r.steps[i].depends_on :
                                  r.steps[i].depends_on[n] \notin StepIdSet(r)}} :
           i \in DOMAIN r.steps}

OrphanClaims(r) == {j \in DOMAIN r.claims : Owners(r, r.claims[j].claim_id) = {}}

SharedClaimIds(r) == {cid \in ClaimRefPool : Cardinality(Owners(r, cid)) >= 2}

ErrorsOf(category) ==
    SelectSeq(structResult.errors, LAMBDA e : e.category = category)

\* C1's condition: every listed claim id exists, every claim is listed by
\* exactly one step, every dependency exists.
WellReferenced(r) ==
    /\ \A i \in DOMAIN r.steps :
          \A k \in DOMAIN r.steps[i].claim_ids :
              r.steps[i].claim_ids[k] \in ClaimIdSet(r)
    /\ \A j \in DOMAIN r.claims :
          Cardinality(Listings(r, r.claims[j].claim_id)) = 1
    /\ \A i \in DOMAIN r.steps :
          \A k \in DOMAIN r.steps[i].depends_on :
              r.steps[i].depends_on[k] \in StepIdSet(r)

\* C1: validate_report_structure returns (True, []) exactly when the report
\* is well referenced (listed claim ids exist, each claim is listed by
\* exactly one step, dependencies exist); otherwise (False, errors) with a
\* non-empty error list.
C1_ValidIffWellReferenced ==
    StructureValidated =>
        IF WellReferenced(report)
        THEN structResult.is_valid /\ structResult.errors = <<>>
        ELSE ~structResult.is_valid /\ structResult.errors # <<>>

\* A valid report with two claims, two steps and a resolved dependency.
C1_Witness ==
    /\ StructureValidated
    /\ structResult.is_valid
    /\ Len(report.claims) = 2
    /\ Len(report.steps) = 2
    /\ \E i \in DOMAIN report.steps : report.steps[i].depends_on # <<>>

\* C2: a claim listed by no step gets exactly one ORPHAN_CLAIM error
\* carrying its id; a claim listed by exactly one step gets no ORPHAN_CLAIM
\* and no other structural error that names it.
C2_OrphanExactlyOnce ==
    StructureValidated =>
        \A j \in DOMAIN report.claims :
            LET cid == report.claims[j].claim_id
                n == Cardinality(Listings(report, cid))
                Orphan(e) == e.category = "ORPHAN_CLAIM" /\ e.claim_id = cid
                About(e) == e.claim_id = cid \/ cid \in Range(e.message.args)
            IN /\ n = 0 => Count(structResult.errors, Orphan) = 1
               /\ n = 1 => Count(structResult.errors, About) = 0

\* A validated report with an orphan claim next to a claim owned once, the
\* owner being a later step than the first.
C2_Witness ==
    /\ StructureValidated
    /\ \E j \in DOMAIN report.claims : Owners(report, report.claims[j].claim_id) = {}
    /\ \E j \in DOMAIN report.claims : Owners(report, report.claims[j].claim_id) = {2}

\* C3: a claim id listed by k >= 2 steps gets exactly one
\* DUPLICATE_CLAIM_OWNER error, which names all k owning step ids; a claim
\* id listed by at most one step gets none.
C3_DuplicateOwnerOncePerClaim ==
    StructureValidated =>
        \A cid \in ClaimRefPool :
            LET owners == Owners(report, cid)
                Mine(e) == e.category = "DUPLICATE_CLAIM_OWNER" /\ e.claim_id = cid
                mine == SelectSeq(structResult.errors, Mine)
            IN IF Cardinality(owners) >= 2
               THEN /\ Len(mine) = 1
                    /\ Len(mine[1].message.args) = Cardinality(owners)
                    /\ Range(mine[1].message.args)
                         = {report.steps[i].step_id : i \in owners}
               ELSE Len(mine) = 0

\* A validated report in which an existing claim is listed by every step
\* (at least two).
C3_Witness ==
    /\ StructureValidated
    /\ Len(report.steps) >= 2
    /\ \E j \in DOMAIN report.claims :
          Owners(report, report.claims[j].claim_id) = DOMAIN report.steps

\* C4: there is one DANGLING_CLAIM_ID error, carrying the step id and the
\* missing claim id, for every (step, claim_ids entry) whose entry is no
\* claim's id, and none for an entry that resolves.
C4_DanglingClaimPerEntry ==
    StructureValidated =>
        /\ \A i \in DOMAIN report.steps :
              \A cid \in ClaimRefPool :
                  LET Mine(e) == /\ e.category = "DANGLING_CLAIM_ID"
                                 /\ e.step_id = report.steps[i].step_id
                                 /\ e.claim_id = cid
                      listed == {k \in DOMAIN report.steps[i].claim_ids :
                                    report.steps[i].claim_ids[k] = cid}
                  IN Count(structResult.errors, Mine)
                       = IF cid \in ClaimIdSet(report) THEN 0 ELSE Cardinality(listed)
        /\ Len(ErrorsOf("DANGLING_CLAIM_ID"))
             = Cardinality(DanglingClaimEntries(report))
        /\ \A n \in DOMAIN structResult.errors :
              LET e == structResult.errors[n]
              IN e.category = "DANGLING_CLAIM_ID" => e.message.args = <<e.claim_id>>

\* A validated report in which one step has a dangling and a resolving
\* entry and another step has a dangling entry.
C4_Witness ==
    /\ StructureValidated
    /\ \E i \in DOMAIN report.steps :
          /\ Range(report.steps[i].claim_ids) \cap ClaimIdSet(report) # {}
          /\ Range(report.steps[i].claim_ids) \ ClaimIdSet(report) # {}
    /\ Cardinality({p[1] : p \in DanglingClaimEntries(report)}) >= 2

\* C5: there is one DANGLING_STEP_DEP error, carrying the depending step's
\* id, for every depends_on entry that is no step's id (repeated entries
\* counted each), and none for an entry that resolves.
C5_DanglingDepPerEntry ==
    StructureValidated =>
        /\ \A i \in DOMAIN report.steps :
              \A d \in StepRefPool :
                  LET Mine(e) == /\ e.category = "DANGLING_STEP_DEP"
                                 /\ e.step_id = report.steps[i].step_id
                                 /\ e.message.args = <<d>>
                      listed == {k \in DOMAIN report.steps[i].depends_on :
                                    report.steps[i].depends_on[k] = d}
                  IN Count(structResult.errors, Mine)
                       = IF d \in StepIdSet(report) THEN 0 ELSE Cardinality(listed)
        /\ Len(ErrorsOf("DANGLING_STEP_DEP")) = Cardinality(DanglingDepEntries(report))

\* A validated report in which one step repeats a dangling dependency and
\* another step has a dependency that resolves.
C5_Witness ==
    /\ StructureValidated
    /\ \E i \in DOMAIN report.steps :
          /\ Len(report.steps[i].depends_on) = 2
          /\ report.steps[i].depends_on[1] = report.steps[i].depends_on[2]
          /\ report.steps[i].depends_on[1] \notin StepIdSet(report)
    /\ \E i \in DOMAIN report.steps :
          Range(report.steps[i].depends_on) \cap StepIdSet(report) # {}

\* C6: the checks do not short-circuit: the returned list holds the errors
\* of every violated category, and its length is the sum of the numbers of
\* dangling claim entries, orphan claims, shared claim ids and dangling
\* dependency entries.
C6_AllCategoriesReported ==
    StructureValidated =>
        /\ Len(ErrorsOf("DANGLING_CLAIM_ID")) = Cardinality(DanglingClaimEntries(report))
        /\ Len(ErrorsOf("ORPHAN_CLAIM")) = Cardinality(OrphanClaims(report))
        /\ Len(ErrorsOf("DUPLICATE_CLAIM_OWNER")) = Cardinality(SharedClaimIds(report))
        /\ Len(ErrorsOf("DANGLING_STEP_DEP")) = Cardinality(DanglingDepEntries(report))
        /\ Len(structResult.errors)
             = Cardinality(DanglingClaimEntries(report))
               + Cardinality(OrphanClaims(report))
               + Cardinality(SharedClaimIds(report))
               + Cardinality(DanglingDepEntries(report))

\* A validated report that violates all four rules at once.
C6_Witness ==
    /\ StructureValidated
    /\ DanglingClaimEntries(report) # {}
    /\ OrphanClaims(report) # {}
    /\ SharedClaimIds(report) # {}
    /\ DanglingDepEntries(report) # {}

CategoryRank(category) ==
    CASE category = "DANGLING_CLAIM_ID" -> 1
      [] category = "ORPHAN_CLAIM" -> 2
      [] category = "DUPLICATE_CLAIM_OWNER" -> 3
      [] category = "DANGLING_STEP_DEP" -> 4

ClaimPos(r, cid) == CHOOSE j \in DOMAIN r.claims : r.claims[j].claim_id = cid
StepPos(r, sid) == CHOOSE i \in DOMAIN r.steps : r.steps[i].step_id = sid

LexLess(p, q) == p[1] < q[1] \/ (p[1] = q[1] /\ p[2] < q[2])

\* The first (step, entry) position at which cid is listed.
FirstListing(r, cid) ==
    CHOOSE p \in Listings(r, cid) : \A q \in Listings(r, cid) : p = q \/ LexLess(p, q)

\* The (step, entry) position a DANGLING_CLAIM_ID error is about.
DanglingClaimPosition(r, e) ==
    LET i == StepPos(r, e.step_id)
    IN <<i, CHOOSE k \in DOMAIN r.steps[i].claim_ids : r.steps[i].claim_ids[k] = e.claim_id>>

\* Errors grouped by category in the fixed order, and inside a category in
\* document order, where DupBefore(a, b) states the order required of two
\* DUPLICATE_CLAIM_OWNER errors a (earlier) and b (later).
OrderedErrors(r, errors, DupBefore(_, _)) ==
    \A m, n \in DOMAIN errors :
        m < n =>
            LET a == errors[m]
                b == errors[n]
            IN /\ CategoryRank(a.category) <= CategoryRank(b.category)
               /\ a.category = b.category =>
                    CASE a.category = "DANGLING_CLAIM_ID" ->
                           LexLess(DanglingClaimPosition(r, a), DanglingClaimPosition(r, b))
                      [] a.category = "ORPHAN_CLAIM" ->
                           ClaimPos(r, a.claim_id) < ClaimPos(r, b.claim_id)
                      [] a.category = "DUPLICATE_CLAIM_OWNER" -> DupBefore(a, b)
                      [] a.category = "DANGLING_STEP_DEP" ->
                           LET i == StepPos(r, a.step_id)
                               j == StepPos(r, b.step_id)
                               deps == r.steps[i].depends_on
                           IN \/ i < j
                              \/ /\ i = j
                                 /\ \E k, l \in DOMAIN deps :
                                       /\ k < l
                                       /\ <<deps[k]>> = a.message.args
                                       /\ <<deps[l]>> = b.message.args

\* Order of two DUPLICATE_CLAIM_OWNER errors by the claims' positions in
\* report.claims (claim ids that are no claim's id have no position).
DupByClaimPosition(a, b) ==
    (a.claim_id \in ClaimIdSet(report) /\ b.claim_id \in ClaimIdSet(report))
        => ClaimPos(report, a.claim_id) < ClaimPos(report, b.claim_id)

\* Order of two DUPLICATE_CLAIM_OWNER errors by the first listing of their
\* claim ids in the steps.
DupByFirstListing(a, b) ==
    LexLess(FirstListing(report, a.claim_id), FirstListing(report, b.claim_id))

\* C7 as stated: errors grouped by category in the order DANGLING_CLAIM_ID,
\* ORPHAN_CLAIM, DUPLICATE_CLAIM_OWNER, DANGLING_STEP_DEP and, inside a
\* category, in document order of the offending record, which for
\* DUPLICATE_CLAIM_OWNER is the claim's position in report.claims.
C7_OrderByClaimPosition ==
    StructureValidated => OrderedErrors(report, structResult.errors, DupByClaimPosition)

\* C7 amended: the same, except that DUPLICATE_CLAIM_OWNER errors appear in
\* the order in which their claim ids are first listed by the steps (step
\* position in report.steps, then entry position in claim_ids).
C7_OrderByFirstListing ==
    StructureValidated => OrderedErrors(report, structResult.errors, DupByFirstListing)

\* A validated report with two DUPLICATE_CLAIM_OWNER errors about existing
\* claims, reported in the reverse of the claims' order, after an error of
\* an earlier category and before one of a later category.
C7_Witness ==
    /\ StructureValidated
    /\ \E m, n \in DOMAIN structResult.errors :
          LET a == structResult.errors[m]
              b == structResult.errors[n]
          IN /\ m < n
             /\ a.category = "DUPLICATE_CLAIM_OWNER"
             /\ b.category = "DUPLICATE_CLAIM_OWNER"
             /\ a.claim_id \in ClaimIdSet(report)
             /\ b.claim_id \in ClaimIdSet(report)
             /\ ClaimPos(report, b.claim_id) < ClaimPos(report, a.claim_id)
    /\ ErrorsOf("DANGLING_STEP_DEP") # <<>>

Distinct(ids) == \A i, j \in DOMAIN ids : i # j => ids[i] # ids[j]

\* C8: constructing a ScientificReport fails with CLAIM_ID_COLLISION,
\* STEP_ID_COLLISION or EVIDENCE_ID_COLLISION (the first violated, in that
\* order) whenever two claims, two steps or two evidence objects share an
\* id, so every constructed report has pairwise distinct ids in each of its
\* three collections.
C8_CollisionsRejectedAtConstruction ==
    /\ report # NoReport =>
          /\ report.claims = claims /\ report.steps = steps /\ report.evidence = evidence
          /\ Distinct(claim_ids_of(report.claims))
          /\ Distinct(step_ids_of(report.steps))
          /\ Distinct(evidence_ids_of(report.evidence))
    /\ raised.category = "CLAIM_ID_COLLISION" =>
          /\ report = NoReport
          /\ ~Distinct(claim_ids_of(claims))
    /\ raised.category = "STEP_ID_COLLISION" =>
          /\ report = NoReport
          /\ Distinct(claim_ids_of(claims))
          /\ ~Distinct(step_ids_of(steps))
    /\ raised.category = "EVIDENCE_ID_COLLISION" =>
          /\ report = NoReport
          /\ Distinct(claim_ids_of(claims))
          /\ Distinct(step_ids_of(steps))
          /\ ~Distinct(evidence_ids_of(evidence))

\* A construction that failed with STEP_ID_COLLISION although the evidence
\* list collides too.
C8_Witness ==
    /\ raised.category = "STEP_ID_COLLISION"
    /\ report = NoReport
    /\ ~Distinct(evidence_ids_of(evidence))

EvidenceValidated == evidResult # NotRun

\* The errors validate_evidence_attachment reported: none if it raised.
ReportedEvidenceErrors ==
    IF evidResult.kind = "returned" THEN evidResult.errors ELSE <<>>

\* C9: validate_evidence_attachment reports exactly one
\* NON_SPEC_MISSING_EVIDENCE error for each DERIVED, COMPUTED or CITED claim
\* with empty evidence_ids, and none for a SPECULATIVE claim or a claim with
\* an evidence id.
C9_NonSpecMissingEvidence ==
    EvidenceValidated =>
        \A j \in DOMAIN report.claims :
            LET c == report.claims[j]
                Mine(e) == /\ e.category = "NON_SPEC_MISSING_EVIDENCE"
                           /\ e.claim_id = c.claim_id
            IN Count(ReportedEvidenceErrors, Mine)
                 = IF /\ c.claim_label \in {"DERIVED", "COMPUTED", "CITED"}
                      /\ c.evidence_ids = <<>>
                   THEN 1 ELSE 0

\* Whether the claim carries a verify_falsify that is non-empty after
\* trimming.
HasVerifyFalsify(c) ==
    /\ "verify_falsify" \in DOMAIN c
    /\ c.verify_falsify # NoneStr
    /\ Strip(c.verify_falsify.chars) # <<>>

\* C10: a Claim can be constructed with a verify_falsify value, and for a
\* report containing a SPECULATIVE claim validate_evidence_attachment
\* returns normally, with exactly one SPEC_MISSING_VERIFY_FALSIFY error for
\* each SPECULATIVE claim lacking a verify_falsify (absent or empty after
\* trimming) and none for any other claim.
C10_SpeculativeNeedsVerifyFalsify ==
    /\ raised.category # "UNEXPECTED_KEYWORD"
    /\ (EvidenceValidated
          /\ \E j \in DOMAIN report.claims : report.claims[j].claim_label = "SPECULATIVE")
       => /\ evidResult.kind = "returned"
          /\ \A j \in DOMAIN report.claims :
                LET c == report.claims[j]
                    Mine(e) == /\ e.category = "SPEC_MISSING_VERIFY_FALSIFY"
                               /\ e.claim_id = c.claim_id
                IN Count(ReportedEvidenceErrors, Mine)
                     = IF c.claim_label = "SPECULATIVE" /\ ~HasVerifyFalsify(c)
                       THEN 1 ELSE 0

\* The evidence ids of the report's evidence objects.
EvidenceIdSet(r) == {r.evidence[i].evidence_id : i \in DOMAIN r.evidence}

\* The positions of a claim's evidence_ids that hold eid.
EntriesOf(c, eid) == {k \in DOMAIN c.evidence_ids : c.evidence_ids[k] = eid}

\* C11: for each claim, validate_evidence_attachment reports one
\* DANGLING_EVIDENCE_ID error for every entry of the claim's evidence_ids
\* that is not the evidence_id of an object of report.evidence, and none
\* for an entry that resolves.
C11_DanglingEvidencePerEntry ==
    EvidenceValidated =>
        \A j \in DOMAIN report.claims :
            \A eid \in EvidenceRefPool \cup {BlankEvidenceId} :
                LET c == report.claims[j]
                    Mine(e) == /\ e.category = "DANGLING_EVIDENCE_ID"
                               /\ e.claim_id = c.claim_id
                               /\ e.evidence_id = eid
                IN Count(ReportedEvidenceErrors, Mine)
                     = IF eid \in EvidenceIdSet(report)
                       THEN 0 ELSE Cardinality(EntriesOf(c, eid))

Finalized == finalResult # NotRun

\* The claims of the report that are not SPECULATIVE, and those of them
\* with no evidence id.
NonSpecClaims(r) == {j \in DOMAIN r.claims : r.claims[j].claim_label # "SPECULATIVE"}
UnsupportedClaims(r) == {j \in NonSpecClaims(r) : r.claims[j].evidence_ids = <<>>}

\* C12: finalization_check returns (False, reasons) with a non-empty
\* remediation checklist for an empty claim list, (False, reasons) with
\* non-empty reasons when some non-SPECULATIVE claim has no evidence id, and
\* (True, []) in exactly the remaining cases.
C12_FinalizationFailsClosed ==
    Finalized =>
        IF report.claims = <<>>
        THEN /\ ~finalResult.can_finalize
             /\ \E k \in DOMAIN finalResult.reasons :
                    /\ finalResult.reasons[k].text = "Checklist:"
                    /\ k < Len(finalResult.reasons)
        ELSE IF UnsupportedClaims(report) # {}
        THEN /\ ~finalResult.can_finalize
             /\ finalResult.reasons # <<>>
        ELSE /\ finalResult.can_finalize
             /\ finalResult.reasons = <<>>

\* A report that may finalize although one of its claims has no evidence
\* id (it is SPECULATIVE), next to a supported DERIVED claim.
C12_Witness ==
    /\ Finalized
    /\ finalResult.can_finalize
    /\ \E i, j \in DOMAIN report.claims :
          /\ report.claims[i].claim_label = "SPECULATIVE"
          /\ report.claims[i].evidence_ids = <<>>
          /\ report.claims[j].claim_label = "DERIVED"
          /\ report.claims[j].evidence_ids # <<>>

RateComputed == rateResult # NotRun

\* C13: compute_unsupported_claim_rate returns 0 when no claim is
\* non-SPECULATIVE, and otherwise U/N with N the number of non-SPECULATIVE
\* claims and U the number of those with empty evidence_ids; the result lies
\* in [0, 1].
C13_UnsupportedRate ==
    RateComputed =>
        LET N == Cardinality(NonSpecClaims(report))
            U == Cardinality(UnsupportedClaims(report))
        IN /\ rateResult.den > 0
           /\ 0 <= rateResult.num
           /\ rateResult.num <= rateResult.den
           /\ IF N = 0
              THEN rateResult.num = 0
              ELSE rateResult.num * N = U * rateResult.den

\* A rate strictly between 0 and 1.
C13_Witness ==
    /\ RateComputed
    /\ 0 < rateResult.num
    /\ rateResult.num < rateResult.den

\* The number of NON_SPEC_MISSING_EVIDENCE errors the validator reported,
\* and the unsupported count finalization_check worked with (the number its
\* first reason interpolates; none is reported when it lets finalize).
MissingEvidenceErrors ==
    Count(ReportedEvidenceErrors, LAMBDA e : e.category = "NON_SPEC_MISSING_EVIDENCE")
AggregatorUnsupported ==
    IF finalResult.can_finalize THEN 0 ELSE finalResult.reasons[1].args[1]

\* C14: on every report with at least one claim, finalization_check returns
\* False iff validate_evidence_attachment contains a
\* NON_SPEC_MISSING_EVIDENCE error iff compute_unsupported_claim_rate is
\* positive, and the aggregator's unsupported count equals the number of
\* NON_SPEC_MISSING_EVIDENCE errors.
C14_PolicyAgreesWithAggregator ==
    (Finalized /\ RateComputed /\ EvidenceValidated /\ report.claims # <<>>) =>
        /\ ~finalResult.can_finalize <=> MissingEvidenceErrors > 0
        /\ MissingEvidenceErrors > 0 <=> rateResult.num > 0
        /\ AggregatorUnsupported = MissingEvidenceErrors

\* A step that runs a validator or the aggregator: the report exists before
\* it and one of the results is written.
ValidationRun ==
    /\ report # NoReport
    /\ <<structResult, structPrev, evidResult, evidPrev, finalResult, rateResult>>'
         # <<structResult, structPrev, evidResult, evidPrev, finalResult, rateResult>>

Tried(cls) == attempt.cls = cls

\* The kind fixed for each evidence type: derivation -> step_id,
\* computation -> tool_run_id, citation -> citation_id.
ExpectedKind(type) ==
    CASE type = "derivation" -> "step_id"
      [] type = "computation" -> "tool_run_id"
      [] type = "citation" -> "citation_id"

\* The arguments pass the checks made before the alignment check: a
\* non-blank id without edge whitespace, enum members, tagged unions.
ReachesAlignment(kw) ==
    /\ NonBlank(kw.evidence_id)
    /\ kw.evidence_id = Strip(kw.evidence_id)
    /\ kw.evidence_type \in EvidenceType
    /\ kw.source.cls = "EvidenceSource"
    /\ kw.status \in EvidenceStatus
    /\ kw.payload_ref.cls = "PayloadRef"

\* C16: EvidenceObject construction succeeds only if source.kind is the kind
\* fixed for its evidence_type; for every mismatching (type, kind) pair of
\* an object whose id, enums and unions are well-formed, construction fails
\* with the one error EVIDENCE_SOURCE_KIND_MISMATCH naming the expected and
\* the actual kind; every constructed EvidenceObject satisfies the alignment.
C16_AlignmentEnforced ==
    Tried("EvidenceObject") =>
        /\ returned.ok =>
              /\ attempt.kw.source.kind = ExpectedKind(attempt.kw.evidence_type)
              /\ returned.value.source.kind = ExpectedKind(returned.value.evidence_type)
        /\ (/\ ReachesAlignment(attempt.kw)
            /\ attempt.kw.source.kind # ExpectedKind(attempt.kw.evidence_type))
           => /\ ~returned.ok
              /\ returned.error.category = "EVIDENCE_SOURCE_KIND_MISMATCH"
              /\ returned.error.args[2] = ExpectedKind(attempt.kw.evidence_type)
              /\ returned.error.args[3] = attempt.kw.source.kind

\* The scenario of the specification: a derivation whose source is a
\* tool_run_id is rejected, naming step_id and tool_run_id.
C16_Witness ==
    /\ Tried("EvidenceObject")
    /\ attempt.kw.evidence_type = "derivation"
    /\ attempt.kw.source.kind = "tool_run_id"
    /\ ~returned.ok
    /\ returned.error.category = "EVIDENCE_SOURCE_KIND_MISMATCH"
    /\ returned.error.args = <<"derivation", "step_id", "tool_run_id">>

\* The arguments pass every check made before the status/reason rule.
ReachesReasonRule(kw) ==
    /\ ReachesAlignment(kw)
    /\ kw.source.kind = ExpectedKind(kw.evidence_type)

\* C17: every constructed EvidenceObject has a status_reason exactly when
\* its status is indeterminate: construction with status indeterminate and
\* no reason fails (with INDETERMINATE_MISSING_REASON once the earlier
\* checks pass), and construction with status pass or fail and a reason
\* fails.
C17_ReasonIffIndeterminate ==
    Tried("EvidenceObject") =>
        /\ returned.ok =>
              (returned.value.status = "indeterminate"
                 <=> returned.value.status_reason # None)
        /\ (attempt.kw.status = "indeterminate" /\ attempt.kw.status_reason = None)
           => /\ ~returned.ok
              /\ ReachesReasonRule(attempt.kw)
                   => returned.error.category = "INDETERMINATE_MISSING_REASON"
        /\ (attempt.kw.status \in {"pass", "fail"} /\ attempt.kw.status_reason # None)
           => ~returned.ok

\* An otherwise well-formed object with status pass and a reason was
\* rejected for the reason alone.
C17_Witness ==
    /\ Tried("EvidenceObject")
    /\ ReachesReasonRule(attempt.kw)
    /\ attempt.kw.status = "pass"
    /\ attempt.kw.status_reason = "timeout"
    /\ attempt.kw.notes = NoneStr
    /\ ~returned.ok
    /\ returned.error.category = "STATUS_REASON_NOT_ALLOWED"

\* A reason that is present and non-empty after trimming.
HasReason(reason) == reason # NoneStr /\ Strip(reason.chars) # <<>>

\* C18: every constructed DerivationStep has a non-empty claim_ids list
\* without a repeated id, and a status_reason that is non-empty after
\* trimming whenever its status is INDETERMINATE; construction with empty
\* claim_ids, with a repeated claim id (DUPLICATE_CLAIM_IN_STEP), or with
\* INDETERMINATE status and a missing or whitespace-only reason fails.
C18_StepInvariants ==
    Tried("DerivationStep") =>
        /\ returned.ok =>
              /\ returned.value.claim_ids # <<>>
              /\ Distinct(returned.value.claim_ids)
              /\ returned.value.step_status = "INDETERMINATE"
                   => HasReason(returned.value.status_reason)
        /\ attempt.kw.claim_ids = <<>> => ~returned.ok
        /\ ~Distinct(attempt.kw.claim_ids)
             => /\ ~returned.ok
                /\ returned.error.category = "DUPLICATE_CLAIM_IN_STEP"
        /\ (/\ attempt.kw.step_status = "INDETERMINATE"
            /\ ~HasReason(attempt.kw.status_reason))
           => ~returned.ok

\* A step with well-formed claim_ids, INDETERMINATE status and a reason made
\* of whitespace only was rejected.
C18_Witness ==
    /\ Tried("DerivationStep")
    /\ attempt.kw.claim_ids = <<"c1", "c2">>
    /\ attempt.kw.step_status = "INDETERMINATE"
    /\ attempt.kw.status_reason = SomeStr(<<"LF", "TAB">>)
    /\ ~returned.ok
    /\ returned.error.category = "INDETERMINATE_REQUIRES_REASON"

\* The invariants of each record type, stated on a record.
ClaimInvariant(c) ==
    /\ DOMAIN c = ClaimFields
    /\ NonBlank(c.statement)
    /\ c.claim_label \in ClaimLabel

StepInvariant(st) ==
    /\ DOMAIN st = StepFields
    /\ st.claim_ids # <<>>
    /\ Distinct(st.claim_ids)
    /\ st.step_status \in StepStatus
    /\ st.step_status = "INDETERMINATE" => HasReason(st.status_reason)

TaggedInvariant(u, cls, kinds) ==
    /\ u.cls = cls
    /\ u.kind \in kinds
    /\ NonBlank(u.value)
    /\ u.value = Strip(u.value)

EvidenceObjectInvariant(e) ==
    /\ NonBlank(e.evidence_id)
    /\ e.evidence_id = Strip(e.evidence_id)
    /\ e.evidence_type \in EvidenceType
    /\ e.status \in EvidenceStatus
    /\ TaggedInvariant(e.source, "EvidenceSource", SourceKinds)
    /\ TaggedInvariant(e.payload_ref, "PayloadRef", PayloadKinds)
    /\ e.source.kind = ExpectedKind(e.evidence_type)
    /\ e.status = "indeterminate" <=> e.status_reason # None
    /\ e.status_reason # None => e.status_reason \in IndeterminateReason
    /\ e.notes # NoneStr => Strip(e.notes.chars) # <<>>

ReportInvariant(r) ==
    /\ Distinct(claim_ids_of(r.claims))
    /\ Distinct(step_ids_of(r.steps))
    /\ Distinct(evidence_ids_of(r.evidence))

RecordInvariant(cls, v) ==
    CASE cls = "Claim" -> ClaimInvariant(v)
      [] cls = "DerivationStep" -> StepInvariant(v)
      [] cls = "EvidenceSource" -> TaggedInvariant(v, "EvidenceSource", SourceKinds)
      [] cls = "PayloadRef" -> TaggedInvariant(v, "PayloadRef", PayloadKinds)
      [] cls \in {"EvidenceObject", "parse_evidence_object"} -> EvidenceObjectInvariant(v)
      [] cls = "ScientificReport" -> ReportInvariant(v)

ConstructionCalls ==
    {"Claim", "DerivationStep", "EvidenceSource", "PayloadRef", "EvidenceObject",
     "ScientificReport", "parse_evidence_object"}

LabelParsers == {"parse_claim_label", "validate_claim_label_string"}

\* The wire value is a string spelling exactly one of the four labels.
ExactLabel(wire) == wire.t = "str" /\ wire.v \in Spelled(ClaimLabel)

\* C20: parse_claim_label and validate_claim_label_string return a ClaimLabel
\* if and only if the input is exactly one of the strings DERIVED, COMPUTED,
\* CITED, SPECULATIVE, and then the returned member's value is the input;
\* every other input (case variant, whitespace variant, string with an
\* invisible or look-alike character, non-string) is rejected with a
\* TypeError or ValueError, so no fifth label is accepted.
C20_LabelParsedExactly ==
    attempt.cls \in LabelParsers =>
        /\ returned.ok <=> ExactLabel(attempt.kw.wire)
        /\ returned.ok =>
               /\ returned.value \in ClaimLabel
               /\ Spelling[returned.value] = attempt.kw.wire.v
               /\ raised = NoError
        /\ ~returned.ok =>
               /\ raised = returned.error
               /\ raised.type \in {"TypeError", "ValueError"}

\* parse_claim_label returned SPECULATIVE for the wire string SPECULATIVE.
C20_Witness ==
    /\ Tried("parse_claim_label")
    /\ attempt.kw.wire = WStr(Spelling.SPECULATIVE)
    /\ returned.ok
    /\ returned.value = "SPECULATIVE"

\* The parsers of a single string token that check for invisible characters.
InvisibleCheckers ==
    {"parse_claim_label", "evidence_validators.parse_evidence_id",
     "gc5_wire_parsers.parse_evidence_id"}

\* The wire value is a string holding at least one of the six invisible
\* code points.
HoldsInvisible(wire) ==
    wire.t = "str" /\ \E i \in DOMAIN wire.v : wire.v[i] \in InvisibleChars

\* C21: parse_claim_label and both parse_evidence_id parsers reject every
\* string that holds one of the six invisible code points with the
\* invisible-character error, whatever else is wrong with the string
\* (whitespace at an end, nothing but no-break spaces, wrong case, other
\* non-ASCII characters): the invisible check precedes those checks.
C21_InvisibleFirst ==
    (attempt.cls \in InvisibleCheckers /\ HoldsInvisible(attempt.kw.wire)) =>
        /\ ~returned.ok
        /\ raised.type = "ValueError"
        /\ raised.category = "INVISIBLE"

\* The GC-5 parse_evidence_id rejected a string of two no-break spaces.
C21_Witness ==
    /\ Tried("gc5_wire_parsers.parse_evidence_id")
    /\ attempt.kw.wire = WStr(<<"NBSP", "NBSP">>)
    /\ ~returned.ok
    /\ raised.category = "INVISIBLE"

\* The string is one of the four labels except for whitespace around it
\* (characters str.strip() removes that are not in the invisible list,
\* which puts the no-break space with the invisible characters).
WhitespaceVariant(v) ==
    /\ v \notin Spelled(ClaimLabel)
    /\ \E l \in Spelled(ClaimLabel) :
           \E a, b \in 0..Len(v) :
               /\ a + Len(l) + b = Len(v)
               /\ SubSeq(v, a + 1, a + Len(l)) = l
               /\ \A i \in (1..a) \cup ((a + Len(l) + 1)..Len(v)) :
                      v[i] \in PyWhitespace \ InvisibleChars

\* The string is one of the four labels except for the case of its letters.
CaseVariant(v) ==
    /\ v \notin Spelled(ClaimLabel)
    /\ \E l \in Spelled(ClaimLabel) :
           /\ Len(v) = Len(l)
           /\ \A i \in DOMAIN l : v[i] \in {l[i], Lower(l)[i]}

\* C22: parse_claim_label rejects a label with surrounding whitespace with
\* the "invalid whitespace" error and a label in another letter case with
\* the "must be uppercase" error; the generic "must be one of" error is
\* raised only for strings that are neither.
C22_SpecificRejection ==
    (Tried("parse_claim_label") /\ attempt.kw.wire.t = "str") =>
        LET v == attempt.kw.wire.v
        IN /\ WhitespaceVariant(v) =>
                  ~returned.ok /\ raised.category = "INVALID_WHITESPACE"
           /\ CaseVariant(v) =>
                  ~returned.ok /\ raised.category = "MUST_BE_UPPERCASE"
           /\ (~returned.ok /\ raised.category = "INVALID_LABEL") =>
                  ~WhitespaceVariant(v) /\ ~CaseVariant(v)

\* parse_claim_label rejected "\tCITED\n" for its whitespace.
C22_Witness ==
    /\ Tried("parse_claim_label")
    /\ attempt.kw.wire = WStr(<<"TAB">> \o Spelling.CITED \o <<"LF">>)
    /\ ~returned.ok
    /\ raised.category = "INVALID_WHITESPACE"

\* The wire parsers of a single string token.
TokenParsers ==
    {"parse_claim_label", "evidence_validators.parse_evidence_id",
     "gc5_wire_parsers.parse_evidence_id", "parse_evidence_type",
     "parse_evidence_status", "parse_indeterminate_reason"}

\* C23: every string-token wire parser rejects each input that is not a
\* string (null, boolean, number, list, map) with a TypeError, and rejects
\* an invalid string with a ValueError.
C23_NonStringIsTypeError ==
    attempt.cls \in TokenParsers =>
        /\ attempt.kw.wire.t # "str" => ~returned.ok /\ raised.type = "TypeError"
        /\ (attempt.kw.wire.t = "str" /\ ~returned.ok) => raised.type = "ValueError"

UnionParsers == {"parse_evidence_source", "parse_payload_ref"}
UnionKinds(cls) == IF cls = "parse_evidence_source" THEN SourceKinds ELSE PayloadKinds

\* C24: parse_evidence_source and parse_payload_ref accept only an object
\* whose key set is exactly {kind, value}, with kind one of the three
\* variants the union declares: an object missing either key or carrying a
\* further key is rejected.
C24_ExactlyKindAndValue ==
    (attempt.cls \in UnionParsers /\ returned.ok) =>
        /\ attempt.kw.wire.t = "dict"
        /\ DOMAIN attempt.kw.wire.v = {"kind", "value"}
        /\ attempt.kw.wire.v.kind.t = "str"
        /\ attempt.kw.wire.v.kind.v \in Spelled(UnionKinds(attempt.cls))

IdParsers == {"evidence_validators.parse_evidence_id", "gc5_wire_parsers.parse_evidence_id"}

\* The string begins or ends with a space, tab, carriage return or line feed.
EdgeWhitespace(v) ==
    /\ v # <<>>
    /\ {v[1], v[Len(v)]} \cap {" ", "TAB", "CR", "LF"} # {}

IsWireString(w) == w.t = "str"

\* C25: no wire parser trims.  Whenever either parse_evidence_id,
\* parse_evidence_ids, parse_evidence_source or parse_payload_ref accepts an
\* input, the string it returns or stores is the input string, and an input
\* string with a space, tab, carriage return or line feed at either end is
\* rejected.
C25_NoTrimming ==
    LET wire == attempt.kw.wire
    IN /\ attempt.cls \in IdParsers =>
              /\ returned.ok => IsWireString(wire) /\ returned.value = wire.v
              /\ (IsWireString(wire) /\ EdgeWhitespace(wire.v)) => ~returned.ok
       /\ Tried("parse_evidence_ids") =>
              /\ returned.ok =>
                     /\ wire.t = "list"
                     /\ \A i \in DOMAIN wire.items : IsWireString(wire.items[i])
                     /\ returned.value = [i \in DOMAIN wire.items |-> wire.items[i].v]
              /\ (wire.t = "list" /\ \E i \in DOMAIN wire.items :
                      IsWireString(wire.items[i]) /\ EdgeWhitespace(wire.items[i].v))
                  => ~returned.ok
       /\ attempt.cls \in UnionParsers =>
              /\ returned.ok =>
                     /\ IsWireString(wire.v.value)
                     /\ returned.value.value = wire.v.value.v
              /\ (/\ wire.t = "dict"
                  /\ "value" \in DOMAIN wire.v
                  /\ IsWireString(wire.v.value)
                  /\ EdgeWhitespace(wire.v.value.v))
                  => ~returned.ok

\* parse_evidence_ids rejected ["e1", "e1\r"] at index 1 for the whitespace
\* at the end of the second id.
C25_Witness ==
    /\ Tried("parse_evidence_ids")
    /\ attempt.kw.wire = WList(<<WStr(EvidenceId(1)), WStr(EvidenceId(1) \o <<"CR">>)>>)
    /\ ~returned.ok
    /\ raised.args = <<1, "EDGE_WHITESPACE">>

\* The string holds a non-ASCII character and none of the six invisible
\* code points.
VisibleNonAscii(v) ==
    /\ \E i \in DOMAIN v : v[i] \in NonAsciiChars \ InvisibleChars
    /\ \A i \in DOMAIN v : v[i] \notin InvisibleChars

\* C26: parse_claim_label rejects every string that holds a non-ASCII
\* character other than the six invisible code points (a look-alike of a
\* label letter, a non-ASCII space) with the "contains non-ASCII characters"
\* error, never with the "invalid whitespace", "must be uppercase" or
\* generic error.
C26_NonAsciiCategory ==
    (/\ Tried("parse_claim_label")
     /\ attempt.kw.wire.t = "str"
     /\ VisibleNonAscii(attempt.kw.wire.v)) =>
        /\ ~returned.ok
        /\ raised.category = "NON_ASCII"

\* The outcome of each field's own parser on a wire object that holds every
\* required field, in the order evidence_id, evidence_type, source, status,
\* payload_ref, status_reason, notes; an optional field that is absent or
\* null is not parsed.
OptionalGiven(items, field) == field \in DOMAIN items /\ items[field].t # "NoneType"
FieldOutcomes(items) ==
    << parse_evidence_id(items.evidence_id),
       parse_evidence_type(items.evidence_type),
       parse_evidence_source(items.source),
       parse_evidence_status(items.status),
       parse_payload_ref(items.payload_ref),
       IF OptionalGiven(items, "status_reason")
       THEN parse_indeterminate_reason(items.status_reason)
       ELSE Ok(None),
       IF OptionalGiven(items, "notes") /\ items.notes.t # "str"
       THEN Raise("TypeError", "NOTES_NOT_STRING")
       ELSE Ok(None) >>

\* The errors of the cross-field checks made when the record is constructed.
SemanticCategories ==
    {"EVIDENCE_SOURCE_KIND_MISMATCH", "INDETERMINATE_MISSING_REASON",
     "STATUS_REASON_NOT_ALLOWED", "NOTES_EMPTY"}

\* C27: parse_evidence_object reports the first failure in a fixed
\* precedence: the wire value is no object; then the first missing required
\* field in the order evidence_id, evidence_type, source, status,
\* payload_ref, whatever the values of the fields present; then the error of
\* the first field, in that order followed by status_reason and notes, whose
\* value its parser rejects; and an error of the cross-field checks only
\* when every field parsed.
C27_FirstFailurePrecedence ==
    Tried("parse_evidence_object") =>
        LET wire == attempt.kw.wire
            missing == {k \in DOMAIN required_fields : required_fields[k] \notin DOMAIN wire.v}
            failing == {i \in 1..7 : ~FieldOutcomes(wire.v)[i].ok}
        IN IF wire.t # "dict"
           THEN ~returned.ok /\ raised.category \in {"NONE", "NOT_DICT"}
           ELSE IF missing # {}
           THEN /\ ~returned.ok
                /\ raised.category = "EVIDENCE_MISSING_FIELD"
                /\ \E k \in missing :
                       /\ \A j \in missing : k <= j
                       /\ raised.args = <<required_fields[k]>>
           ELSE IF failing # {}
           THEN \E i \in failing :
                    /\ \A j \in failing : i <= j
                    /\ returned = FieldOutcomes(wire.v)[i]
           ELSE returned.ok \/ raised.category \in SemanticCategories

\* parse_evidence_object was given an object without payload_ref whose
\* evidence_id holds a space, and reported the missing field.
C27_Witness ==
    /\ Tried("parse_evidence_object")
    /\ attempt.kw.wire.t = "dict"
    /\ "payload_ref" \notin DOMAIN attempt.kw.wire.v
    /\ "evidence_id" \in DOMAIN attempt.kw.wire.v
    /\ attempt.kw.wire.v.evidence_id = WStr(<<"e", " ", "1">>)
    /\ raised.category = "EVIDENCE_MISSING_FIELD"
    /\ raised.args = <<"payload_ref">>

\* The reason class of a rejection: the union parsers report the empty and
\* the whitespace-only value under one message.
ReasonClass(category) ==
    IF category \in {"EMPTY", "WHITESPACE_ONLY", "EMPTY_OR_WHITESPACE_ONLY"}
    THEN "EMPTY_OR_WHITESPACE_ONLY"
    ELSE category

\* The call gave a union parser an object with a valid kind and a string
\* value.
UnionValueExamined ==
    /\ attempt.cls \in UnionParsers
    /\ attempt.kw.wire.t = "dict"
    /\ {"kind", "value"} \subseteq DOMAIN attempt.kw.wire.v
    /\ attempt.kw.wire.v.kind.t = "str"
    /\ attempt.kw.wire.v.kind.v \in Spelled(UnionKinds(attempt.cls))
    /\ attempt.kw.wire.v.value.t = "str"

\* C28: the value of a tagged union is checked as an identifier token is:
\* parse_evidence_source and parse_payload_ref accept a string value exactly
\* when the GC-5 parse_evidence_id accepts it, and reject it for the reason
\* parse_evidence_id gives (a value of no-break spaces only is an invisible-
\* character error, not a whitespace-only one).
C28_ValueCheckedAsToken ==
    UnionValueExamined =>
        LET token == parse_evidence_id(attempt.kw.wire.v.value)
        IN /\ returned.ok <=> token.ok
           /\ ~returned.ok =>
                  ReasonClass(raised.category) = ReasonClass(token.error.category)

\* A step that attaches an evidence id to a claim of the report.
Attached == report # NoReport /\ report' # report

\* The number of claims that are not SPECULATIVE and not supported.
UnsupportedCount(cs) == Len(SelectSeq(SelectSeq(cs, NonSpeculative), Unsupported))

\* a/b <= c/d for fractions with positive denominators
AtMost(p, q) == p.num * q.den <= q.num * p.den

MayFinalize == [can_finalize |-> TRUE, reasons |-> <<>>]

\* C29: while evidence ids are attached to the claims of a report (labels
\* and the claim list staying as they are), the number of unsupported
\* non-SPECULATIVE claims and compute_unsupported_claim_rate never increase,
\* finalization_check never goes from (True, []) back to False, and
\* finalization_check is (True, []) as soon as every non-SPECULATIVE claim of
\* the report has an evidence id.
C29_AttachmentMonotone ==
    /\ [][Attached =>
            /\ Len(report.claims') = Len(report.claims)
            /\ \A i \in DOMAIN report.claims :
                   /\ report.claims'[i].claim_id = report.claims[i].claim_id
                   /\ report.claims'[i].claim_label = report.claims[i].claim_label
            /\ UnsupportedCount(report.claims') <= UnsupportedCount(report.claims)
            /\ AtMost(compute_unsupported_claim_rate(report.claims'),
                      compute_unsupported_claim_rate(report.claims))
            /\ finalization_check(report.claims).can_finalize =>
                   finalization_check(report.claims') = MayFinalize]_vars
    /\ []((/\ report # NoReport
           /\ report.claims # <<>>
           /\ \A i \in DOMAIN report.claims :
                  report.claims[i].claim_label # "SPECULATIVE" =>
                      report.claims[i].evidence_ids # <<>>)
          => finalization_check(report.claims) = MayFinalize)
    /\ []((Finalized /\ finalResult = finalization_check(report.claims)
           /\ UnsupportedClaims(report) = {} /\ report.claims # <<>>)
          => finalResult = MayFinalize)

\* finalization_check blocked the report while a DERIVED claim had no
\* evidence; ids were then attached, and the rate computed afterwards is 0
\* and the decision now is (True, []).
C29_Witness ==
    /\ report # NoReport
    /\ Finalized
    /\ ~finalResult.can_finalize
    /\ RateComputed
    /\ rateResult = Zero
    /\ \E i, j \in DOMAIN report.claims :
          /\ report.claims[i].claim_label = "DERIVED"
          /\ Len(report.claims[i].evidence_ids) = 2
          /\ report.claims[j].claim_label = "SPECULATIVE"
    /\ finalization_check(report.claims) = MayFinalize

\* Step i of the report depends on step j directly.
DependsOn(r, i, j) == r.steps[j].step_id \in Range(r.steps[i].depends_on)

\* Step j is reached from step i along at least one and at most n
\* depends_on references.
RECURSIVE Reaches(_, _, _, _)
Reaches(r, i, j, n) ==
    /\ n > 0
    /\ \/ DependsOn(r, i, j)
       \/ \E k \in DOMAIN r.steps : DependsOn(r, i, k) /\ Reaches(r, k, j, n - 1)

\* Some step of the report depends on itself, directly or through others.
Cyclic(r) == \E i \in DOMAIN r.steps : Reaches(r, i, i, Len(r.steps))

ErrorCategories ==
    {"DANGLING_CLAIM_ID", "ORPHAN_CLAIM", "DUPLICATE_CLAIM_OWNER", "DANGLING_STEP_DEP"}

\* C30: validate_report_structure makes no acyclicity check on depends_on.
\* A report in which a step lists its own step_id in depends_on, or whose
\* steps depend on each other in a cycle, is valid with no errors when
\* every depends_on entry resolves and the claim ownership is valid; and no
\* error of any report concerns anything but the four reference rules.
C30_CyclesAreValid ==
    StructureValidated =>
        /\ (Cyclic(report) /\ WellReferenced(report)) =>
               structResult.is_valid /\ structResult.errors = <<>>
        /\ \A k \in DOMAIN structResult.errors :
               /\ structResult.errors[k].category \in ErrorCategories
               /\ structResult.errors[k].category = "DANGLING_STEP_DEP" =>
                      structResult.errors[k].message.args[1] \notin StepIdSet(report)

\* A report found valid in which the first step depends on itself and on
\* the second step, and the second step depends on the first.
C30_Witness ==
    /\ StructureValidated
    /\ structResult.is_valid
    /\ Len(report.steps) = 2
    /\ Range(report.steps[1].depends_on)
         = {report.steps[1].step_id, report.steps[2].step_id}
    /\ report.steps[2].depends_on = <<report.steps[1].step_id>>

====
